---- MODULE Spec2Model ----
(***************************************************************************)
(* A model of the yamllint rule checker (src/src/rules.rs), its report     *)
(* aggregation (src/src/linter.rs) and its configuration                   *)
(* (src/src/config.rs).                                                    *)
(*                                                                         *)
(* Strings are sequences of one-character strings, so that length,         *)
(* prefixes, suffixes, trimming and substring search are computed as the   *)
(* code computes them.  A document is its raw text (with "\n" line         *)
(* terminators) together with the outcome of serde_yaml::from_str on it,   *)
(* which is an input of the model: the parser is a library, not code of    *)
(* the repository.                                                         *)
(***************************************************************************)
EXTENDS Integers, Sequences, FiniteSets, TLC

VARIABLES content, parsed, file_path, config, results, report, pc, fixed,
          command, walk, next, disk, reports, outcome, events, loop

\* the state of a run over the files of a directory: the command, the
\* entries the walk yields, the position in the loop, the files' contents,
\* the reports collected, the run's result and the file operations made
run == <<command, walk, next, disk, reports, outcome, events>>

\* loop is the state of the third loop of fix_empty_lines when it is taken
\* step by step: the line list and the index i (from 0, as in the code)
vars == <<content, parsed, file_path, config, results, report, pc, fixed, run, loop>>

(***************************************************************************)
(* Bounds of the model.                                                    *)
(***************************************************************************)
\* longest raw text drawn over TextAlphabet
MaxLen == 4
\* largest indentation unit drawn
MaxUnit == 3
\* largest max_start / max_consecutive drawn
MaxBlank == 2
\* largest small line-length maximum drawn (the default 120 is drawn too)
MaxLineMax == 2

(***************************************************************************)
(* Generic helpers on sequences.                                           *)
(***************************************************************************)
RECURSIVE ConcatAll(_)
ConcatAll(ss) == IF ss = <<>> THEN <<>> ELSE Head(ss) \o ConcatAll(Tail(ss))

Rep(c, n) == [i \in 1..n |-> c]

SeqsUpTo(S, n) == UNION {[1..k -> S] : k \in 0..n}

Range(s) == {s[i] : i \in 1..Len(s)}

(***************************************************************************)
(* str: the operations of Rust's str that the rules use.                   *)
(***************************************************************************)
\* char::is_whitespace, on the characters the model draws
IsWhitespace(c) == c \in {" ", "\t", "\n", "\r"}

RECURSIVE trim_start(_)
trim_start(s) ==
    IF s # <<>> /\ IsWhitespace(Head(s)) THEN trim_start(Tail(s)) ELSE s

RECURSIVE trim_end(_)
trim_end(s) ==
    IF s # <<>> /\ IsWhitespace(s[Len(s)])
    THEN trim_end(SubSeq(s, 1, Len(s) - 1)) ELSE s

trim(s) == trim_end(trim_start(s))

starts_with(s, c) == s # <<>> /\ Head(s) = c

ends_with(s, c) == s # <<>> /\ s[Len(s)] = c

\* str::contains with a str pattern: the pattern occurs as a substring
contains(s, p) ==
    \E i \in 0..(Len(s) - Len(p)) : SubSeq(s, i + 1, i + Len(p)) = p

\* str::lines: split at "\n", a "\r" before the "\n" is dropped with it, and
\* the piece after the last "\n" is a line only when it is not empty.
\* Terminators(s) are the positions of "\n"; line k runs from after the
\* (k-1)-th terminator to before the k-th (or to the end of s).
Terminators(s) == {i \in 1..Len(s) : s[i] = "\n"}

NthTerminator(s, k) ==
    CHOOSE i \in Terminators(s) : Cardinality({j \in Terminators(s) : j < i}) = k - 1

lines(s) ==
    LET n == Cardinality(Terminators(s))
        count == IF s # <<>> /\ s[Len(s)] # "\n" THEN n + 1 ELSE n
        first(k) == IF k = 1 THEN 1 ELSE NthTerminator(s, k - 1) + 1
        last(k) == IF k <= n THEN NthTerminator(s, k) - 1 ELSE Len(s)
        strip(l) == IF ends_with(l, "\r") THEN SubSeq(l, 1, Len(l) - 1) ELSE l
    IN [k \in 1..count |->
          IF k <= n THEN strip(SubSeq(s, first(k), last(k)))
          ELSE SubSeq(s, first(k), last(k))]

(***************************************************************************)
(* Severity, Config and LintResult.                                        *)
(***************************************************************************)
Severity == {"Error", "Warning", "Info", "Off"}

DefaultPattern == <<"*", "*", "/", "k", "8", "s", "/", "*", ".", "y", "a", "m", "l">>

S_apiVersion == <<"a", "p", "i", "V", "e", "r", "s", "i", "o", "n">>
S_kind == <<"k", "i", "n", "d">>
S_metadata == <<"m", "e", "t", "a", "d", "a", "t", "a">>
S_name == <<"n", "a", "m", "e">>
S_metadata_name == S_metadata \o <<".">> \o S_name

\* Config::default; required_fields.paths is the map's entries in the order
\* its iteration yields them
DefaultConfig ==
    [ spaces            |-> 2,
      line_length_max   |-> 120,
      trailing_spaces   |-> "Error",
      max_start         |-> 0,
      max_end           |-> 1,
      max_consecutive   |-> 2,
      paths             |-> << <<DefaultPattern,
                                 <<S_apiVersion, S_kind, S_metadata_name>> >> >>,
      strict_numbers    |-> TRUE,
      check_bool_values |-> TRUE,
      duplicates        |-> "Error",
      prefer_double     |-> FALSE,
      backup_files      |-> TRUE,
      exclude           |->
          << <<"*", "*", "/", "n", "o", "d", "e", "_", "m", "o", "d", "u", "l", "e", "s", "/">>,
             <<"*", "*", "/", ".", "g", "i", "t", "/">>,
             <<"*", "*", "/", "v", "e", "n", "d", "o", "r", "/">> >> ]

\* the message of a LintResult: the format string's fixed text and its
\* arguments (numbers in n1, n2; a string in arg)
Msg(text, n1, n2, arg) == [text |-> text, n1 |-> n1, n2 |-> n2, arg |-> arg]

LintResult(file, line, column, severity, rule, message, snippet) ==
    [ file |-> file, line |-> line, column |-> column, severity |-> severity,
      rule |-> rule, message |-> message, snippet |-> snippet ]

is_error(r) == r.severity = "Error"

is_warning(r) == r.severity = "Warning"

(***************************************************************************)
(* The text rules.                                                         *)
(***************************************************************************)
check_indentation(cfg, text, path) ==
    LET ls == lines(text)
        expected_spaces == cfg.spaces
        one(i) ==
            LET line == ls[i]
                leading_spaces == Len(line) - Len(trim_start(line))
            IN IF trim(line) = <<>> THEN <<>>
               ELSE IF starts_with(line, " ") /\ leading_spaces % expected_spaces # 0
                    THEN << LintResult(path, i, 1, "Error", "indentation",
                              Msg("Indentation should be multiples of {} spaces",
                                  expected_spaces, 0, <<>>),
                              line) >>
                    ELSE <<>>
    IN ConcatAll([i \in 1..Len(ls) |-> one(i)])

\* check_trailing_spaces with the severity gating detection: a variant that
\* reports nothing when the level is Off
check_trailing_spaces_gated(cfg, text, path) ==
    LET ls == lines(text)
        one(i) ==
            LET line == ls[i]
            IN IF cfg.trailing_spaces # "Off"
                  /\ (ends_with(line, " ") \/ ends_with(line, "\t"))
               THEN << LintResult(path, i, Len(line), cfg.trailing_spaces,
                         "trailing-spaces",
                         Msg("Trailing spaces are not allowed", 0, 0, <<>>),
                         line) >>
               ELSE <<>>
    IN ConcatAll([i \in 1..Len(ls) |-> one(i)])

\* check_trailing_spaces with the column after the last character that is
\* no whitespace: a variant whose column is 0 on a line of spaces
check_trailing_spaces_trimmed_column(cfg, text, path) ==
    LET ls == lines(text)
        one(i) ==
            LET line == ls[i]
            IN IF ends_with(line, " ") \/ ends_with(line, "\t")
               THEN << LintResult(path, i, Len(trim_end(line)), cfg.trailing_spaces,
                         "trailing-spaces",
                         Msg("Trailing spaces are not allowed", 0, 0, <<>>),
                         line) >>
               ELSE <<>>
    IN ConcatAll([i \in 1..Len(ls) |-> one(i)])

check_trailing_spaces(cfg, text, path) ==
    LET ls == lines(text)
        one(i) ==
            LET line == ls[i]
            IN IF ends_with(line, " ") \/ ends_with(line, "\t")
               THEN << LintResult(path, i, Len(line), cfg.trailing_spaces,
                         "trailing-spaces",
                         Msg("Trailing spaces are not allowed", 0, 0, <<>>),
                         line) >>
               ELSE <<>>
    IN ConcatAll([i \in 1..Len(ls) |-> one(i)])

\* check_line_length with >= for >: a variant that reports a line of exactly
\* the maximum length
check_line_length_inclusive(cfg, text, path) ==
    LET ls == lines(text)
        max_length == cfg.line_length_max
        one(i) ==
            LET line == ls[i]
            IN IF Len(line) >= max_length
               THEN << LintResult(path, i, max_length + 1, "Warning", "line-length",
                         Msg("Line too long ({} > {})", Len(line), max_length, <<>>),
                         line) >>
               ELSE <<>>
    IN ConcatAll([i \in 1..Len(ls) |-> one(i)])

check_line_length(cfg, text, path) ==
    LET ls == lines(text)
        max_length == cfg.line_length_max
        one(i) ==
            LET line == ls[i]
            IN IF Len(line) > max_length
               THEN << LintResult(path, i, max_length + 1, "Warning", "line-length",
                         Msg("Line too long ({} > {})", Len(line), max_length, <<>>),
                         line) >>
               ELSE <<>>
    IN ConcatAll([i \in 1..Len(ls) |-> one(i)])

\* the first loop of check_empty_lines without its else branch: a variant
\* that never resets the running count
RECURSIVE ConsecutiveScan_no_reset(_, _, _, _, _)
ConsecutiveScan_no_reset(cfg, ls, path, i, consecutive_empty) ==
    IF i > Len(ls) THEN <<>>
    ELSE IF trim(ls[i]) = <<>>
         THEN (IF consecutive_empty + 1 > cfg.max_consecutive
               THEN << LintResult(path, i, 1, "Warning", "empty-lines",
                         Msg("Too many consecutive empty lines ({})",
                             consecutive_empty + 1, 0, <<>>),
                         <<>>) >>
               ELSE <<>>)
              \o ConsecutiveScan_no_reset(cfg, ls, path, i + 1, consecutive_empty + 1)
         ELSE ConsecutiveScan_no_reset(cfg, ls, path, i + 1, consecutive_empty)

\* the first loop of check_empty_lines: i is the index of the next line,
\* consecutive_empty the running count
RECURSIVE ConsecutiveScan(_, _, _, _, _)
ConsecutiveScan(cfg, ls, path, i, consecutive_empty) ==
    IF i > Len(ls) THEN <<>>
    ELSE IF trim(ls[i]) = <<>>
         THEN (IF consecutive_empty + 1 > cfg.max_consecutive
               THEN << LintResult(path, i, 1, "Warning", "empty-lines",
                         Msg("Too many consecutive empty lines ({})",
                             consecutive_empty + 1, 0, <<>>),
                         <<>>) >>
               ELSE <<>>)
              \o ConsecutiveScan(cfg, ls, path, i + 1, consecutive_empty + 1)
         ELSE ConsecutiveScan(cfg, ls, path, i + 1, 0)

\* lines.iter().take_while(|l| l.trim().is_empty()) counted
RECURSIVE StartEmpty(_)
StartEmpty(ls) ==
    IF ls # <<>> /\ trim(Head(ls)) = <<>> THEN 1 + StartEmpty(Tail(ls)) ELSE 0

\* check_empty_lines with >= for > in the leading-run check: a variant that
\* reports a leading run of exactly max_start lines
check_empty_lines_inclusive(cfg, text, path) ==
    LET ls == lines(text)
        start_empty == StartEmpty(ls)
    IN ConsecutiveScan(cfg, ls, path, 1, 0)
       \o (IF start_empty >= cfg.max_start
           THEN << LintResult(path, 1, 1, "Warning", "empty-lines",
                     Msg("Too many empty lines at start of file ({})",
                         start_empty, 0, <<>>),
                     <<>>) >>
           ELSE <<>>)

\* check_empty_lines with a check of the run at the end of the file
\* against max_end: a variant that enforces the threshold
check_empty_lines_max_end(cfg, text, path) ==
    LET ls == lines(text)
        start_empty == StartEmpty(ls)
        end_empty == StartEmpty([i \in 1..Len(ls) |-> ls[Len(ls) + 1 - i]])
    IN ConsecutiveScan(cfg, ls, path, 1, 0)
       \o (IF start_empty > cfg.max_start
           THEN << LintResult(path, 1, 1, "Warning", "empty-lines",
                     Msg("Too many empty lines at start of file ({})",
                         start_empty, 0, <<>>),
                     <<>>) >>
           ELSE <<>>)
       \o (IF end_empty > cfg.max_end
           THEN << LintResult(path, Len(ls), 1, "Warning", "empty-lines",
                     Msg("Too many empty lines at end of file ({})",
                         end_empty, 0, <<>>),
                     <<>>) >>
           ELSE <<>>)

check_empty_lines(cfg, text, path) ==
    LET ls == lines(text)
        start_empty == StartEmpty(ls)
    IN ConsecutiveScan(cfg, ls, path, 1, 0)
       \o (IF start_empty > cfg.max_start
           THEN << LintResult(path, 1, 1, "Warning", "empty-lines",
                     Msg("Too many empty lines at start of file ({})",
                         start_empty, 0, <<>>),
                     <<>>) >>
           ELSE <<>>)

(***************************************************************************)
(* serde_yaml::Value: the parsed tree.  A Mapping is its entries in        *)
(* insertion order, each a pair <<key, value>> of Values; the map holds    *)
(* one entry per key.                                                      *)
(***************************************************************************)
VNull == [kind |-> "Null"]
VBool(b) == [kind |-> "Bool", b |-> b]
VNumber(n) == [kind |-> "Number", n |-> n]
VString(s) == [kind |-> "String", s |-> s]
VSequence(items) == [kind |-> "Sequence", items |-> items]
VMapping(entries) == [kind |-> "Mapping", entries |-> entries]

\* Mapping::contains_key
contains_key(mapping, key) ==
    \E i \in 1..Len(mapping.entries) : mapping.entries[i][1] = key

\* Mapping::get, where contains_key holds
get(mapping, key) ==
    LET i == CHOOSE j \in 1..Len(mapping.entries) : mapping.entries[j][1] = key
    IN mapping.entries[i][2]

\* the outcome of serde_yaml::from_str::<Value>
ParseErr == [ok |-> FALSE]
ParseOk(value) == [ok |-> TRUE, value |-> value]

(***************************************************************************)
(* More of str: trim_matches, split, to_lowercase, parse.                  *)
(***************************************************************************)
RECURSIVE trim_start_matches(_, _)
trim_start_matches(s, c) ==
    IF s # <<>> /\ Head(s) = c THEN trim_start_matches(Tail(s), c) ELSE s

RECURSIVE trim_end_matches(_, _)
trim_end_matches(s, c) ==
    IF s # <<>> /\ s[Len(s)] = c
    THEN trim_end_matches(SubSeq(s, 1, Len(s) - 1), c) ELSE s

trim_matches(s, c) == trim_end_matches(trim_start_matches(s, c), c)

\* str::split(c): the pieces between the separators, empty ones included
RECURSIVE SplitFrom(_, _, _)
SplitFrom(s, c, cur) ==
    IF s = <<>> THEN <<cur>>
    ELSE IF Head(s) = c THEN <<cur>> \o SplitFrom(Tail(s), c, <<>>)
         ELSE SplitFrom(Tail(s), c, Append(cur, Head(s)))

split(s, c) == SplitFrom(s, c, <<>>)

UpperLetters ==
    <<"A", "B", "C", "D", "E", "F", "G", "H", "I", "J", "K", "L", "M",
      "N", "O", "P", "Q", "R", "S", "T", "U", "V", "W", "X", "Y", "Z">>

LowerLetters ==
    <<"a", "b", "c", "d", "e", "f", "g", "h", "i", "j", "k", "l", "m",
      "n", "o", "p", "q", "r", "s", "t", "u", "v", "w", "x", "y", "z">>

LowerChar(c) ==
    IF \E i \in 1..Len(UpperLetters) : UpperLetters[i] = c
    THEN LowerLetters[CHOOSE i \in 1..Len(UpperLetters) : UpperLetters[i] = c]
    ELSE c

to_lowercase(s) == [i \in 1..Len(s) |-> LowerChar(s[i])]

IsDigit(c) == c \in {"0", "1", "2", "3", "4", "5", "6", "7", "8", "9"}

AllDigits(s) == \A i \in 1..Len(s) : IsDigit(s[i])

RECURSIVE DigitPrefixLen(_)
DigitPrefixLen(s) ==
    IF s # <<>> /\ IsDigit(Head(s)) THEN 1 + DigitPrefixLen(Tail(s)) ELSE 0

Drop(s, n) == SubSeq(s, n + 1, Len(s))

StripSign(s) == IF s # <<>> /\ Head(s) \in {"+", "-"} THEN Tail(s) ELSE s

DigitValue(c) == CHOOSE d \in 0..9 : <<"0", "1", "2", "3", "4", "5", "6", "7", "8", "9">>[d + 1] = c

\* a <= b for digit strings of equal length
RECURSIVE DigitsLE(_, _)
DigitsLE(a, b) ==
    IF a = <<>> THEN TRUE
    ELSE IF DigitValue(Head(a)) < DigitValue(Head(b)) THEN TRUE
    ELSE IF DigitValue(Head(a)) > DigitValue(Head(b)) THEN FALSE
    ELSE DigitsLE(Tail(a), Tail(b))

\* |i64::MIN| = 9223372036854775808 and i64::MAX = 9223372036854775807
I64MinDigits ==
    <<"9", "2", "2", "3", "3", "7", "2", "0", "3", "6", "8", "5", "4", "7", "7", "5", "8", "0", "8">>

I64MaxDigits ==
    <<"9", "2", "2", "3", "3", "7", "2", "0", "3", "6", "8", "5", "4", "7", "7", "5", "8", "0", "7">>

\* s.parse::<i64>().is_ok(): an optional sign, one or more digits, in range
parse_i64_is_ok(s) ==
    LET digits == StripSign(s)
        sig == trim_start_matches(digits, "0")
        bound == IF s # <<>> /\ Head(s) = "-" THEN I64MinDigits ELSE I64MaxDigits
    IN /\ digits # <<>>
       /\ AllDigits(digits)
       /\ \/ Len(sig) < Len(bound)
          \/ Len(sig) = Len(bound) /\ DigitsLE(sig, bound)

\* s.parse::<f64>().is_ok(): Sign? ('inf' | 'infinity' | 'nan' | Number), with
\* Number ::= (Digit+ | Digit+ '.' Digit* | Digit* '.' Digit+) Exp?,
\* Exp ::= 'e' Sign? Digit+, letters in either case
parse_f64_is_ok(s) ==
    LET body == StripSign(s)
        n1 == DigitPrefixLen(body)
        r1 == Drop(body, n1)
        hasDot == r1 # <<>> /\ Head(r1) = "."
        r2 == IF hasDot THEN Tail(r1) ELSE r1
        n2 == IF hasDot THEN DigitPrefixLen(r2) ELSE 0
        r3 == Drop(r2, n2)
        exp == StripSign(Tail(r3))
    IN \/ to_lowercase(body) \in {<<"i", "n", "f">>, <<"n", "a", "n">>,
                                  <<"i", "n", "f", "i", "n", "i", "t", "y">>}
       \/ /\ n1 + n2 >= 1
          /\ \/ r3 = <<>>
             \/ /\ Head(r3) \in {"e", "E"}
                /\ exp # <<>>
                /\ AllDigits(exp)

(***************************************************************************)
(* The structural rules.                                                   *)
(***************************************************************************)
RECURSIVE check_nested_field(_, _, _)
check_nested_field(mapping, parts, path) ==
    IF parts = <<>> THEN <<>>
    ELSE LET key == parts[1]
             key_value == VString(key)
         IN IF ~contains_key(mapping, key_value)
            THEN << LintResult(path, 1, 1, "Error", "required-fields",
                      Msg("Missing required field: {}", 0, 0, key), <<>>) >>
            ELSE IF Len(parts) > 1 /\ get(mapping, key_value).kind = "Mapping"
                 THEN check_nested_field(get(mapping, key_value), Tail(parts), path)
                 ELSE <<>>

check_required_in_value(value, required_fields, path) ==
    IF value.kind = "Mapping"
    THEN ConcatAll([i \in 1..Len(required_fields) |->
                      check_nested_field(value, split(required_fields[i], "."), path)])
    ELSE <<>>

\* the pattern as check_required_fields searches for it
StrippedPattern(pattern) == trim_matches(trim_matches(pattern, "*"), "/")

PatternApplies(pattern, path) == contains(path, StrippedPattern(pattern))

check_required_fields(cfg, value, path) ==
    ConcatAll([i \in 1..Len(cfg.paths) |->
                 IF PatternApplies(cfg.paths[i][1], path)
                 THEN check_required_in_value(value, cfg.paths[i][2], path)
                 ELSE <<>>])

\* the diagnostics of one Value::String with is_err for is_ok in the f64
\* parse: a variant that takes what is no number for a number
VisitString_is_err(cfg, s, path) ==
    (IF cfg.check_bool_values
        /\ to_lowercase(s) \in {<<"t", "r", "u", "e">>, <<"f", "a", "l", "s", "e">>,
                                <<"y", "e", "s">>, <<"n", "o">>}
     THEN << LintResult(path, 1, 1, "Warning", "value-types",
               Msg("Boolean-like string: '{}'. Consider using boolean type.", 0, 0, s),
               s) >>
     ELSE <<>>)
    \o
    (IF cfg.strict_numbers /\ (parse_i64_is_ok(s) \/ ~parse_f64_is_ok(s))
     THEN << LintResult(path, 1, 1, "Warning", "value-types",
               Msg("Number-like string: '{}'. Consider using number type.", 0, 0, s),
               s) >>
     ELSE <<>>)

\* the diagnostics of one Value::String
VisitString(cfg, s, path) ==
    (IF cfg.check_bool_values
        /\ to_lowercase(s) \in {<<"t", "r", "u", "e">>, <<"f", "a", "l", "s", "e">>,
                                <<"y", "e", "s">>, <<"n", "o">>}
     THEN << LintResult(path, 1, 1, "Warning", "value-types",
               Msg("Boolean-like string: '{}'. Consider using boolean type.", 0, 0, s),
               s) >>
     ELSE <<>>)
    \o
    (IF cfg.strict_numbers /\ (parse_i64_is_ok(s) \/ parse_f64_is_ok(s))
     THEN << LintResult(path, 1, 1, "Warning", "value-types",
               Msg("Number-like string: '{}'. Consider using number type.", 0, 0, s),
               s) >>
     ELSE <<>>)

\* visit_value without its Sequence arm: a variant that does not descend
\* into sequences
RECURSIVE visit_value_no_sequences(_, _, _)
visit_value_no_sequences(cfg, value, path) ==
    CASE value.kind = "String" -> VisitString(cfg, value.s, path)
      [] value.kind = "Mapping" ->
           ConcatAll([i \in 1..Len(value.entries) |->
                        visit_value_no_sequences(cfg, value.entries[i][2], path)])
      [] OTHER -> <<>>

RECURSIVE visit_value(_, _, _)
visit_value(cfg, value, path) ==
    CASE value.kind = "String" -> VisitString(cfg, value.s, path)
      [] value.kind = "Mapping" ->
           ConcatAll([i \in 1..Len(value.entries) |->
                        visit_value(cfg, value.entries[i][2], path)])
      [] value.kind = "Sequence" ->
           ConcatAll([i \in 1..Len(value.items) |->
                        visit_value(cfg, value.items[i], path)])
      [] OTHER -> <<>>

check_value_types(cfg, value, path) == visit_value(cfg, value, path)

\* the loop of check_duplicates: seen_keys is the set of keys inserted so far
RECURSIVE DuplicatesScan(_, _, _, _, _)
DuplicatesScan(cfg, entries, path, i, seen_keys) ==
    IF i > Len(entries) THEN <<>>
    ELSE LET k == entries[i][1]
         IN IF k.kind = "String"
            THEN (IF k.s \in seen_keys
                  THEN << LintResult(path, 1, 1, cfg.duplicates, "duplicates",
                            Msg("Duplicate key: '{}'", 0, 0, k.s), k.s) >>
                  ELSE <<>>)
                 \o DuplicatesScan(cfg, entries, path, i + 1, seen_keys \cup {k.s})
            ELSE DuplicatesScan(cfg, entries, path, i + 1, seen_keys)

check_duplicates(cfg, value, path) ==
    IF value.kind = "Mapping"
    THEN DuplicatesScan(cfg, value.entries, path, 1, {})
    ELSE <<>>

(***************************************************************************)
(* RuleChecker::check_file and YamlLinter::lint_file.                      *)
(***************************************************************************)
FirstLine(text) == IF lines(text) = <<>> THEN <<>> ELSE Head(lines(text))

SyntaxResult(text, path) ==
    LintResult(path, 1, 1, "Error", "syntax", Msg("Syntax error: {}", 0, 0, <<>>),
               FirstLine(text))

\* check_file without the return after the syntax diagnostic: a variant
\* that goes on to the text rules
check_file_no_return(cfg, text, parse, path) ==
    (IF ~parse.ok THEN << SyntaxResult(text, path) >> ELSE <<>>)
    \o check_indentation(cfg, text, path)
    \o check_trailing_spaces(cfg, text, path)
    \o check_line_length(cfg, text, path)
    \o check_empty_lines(cfg, text, path)
    \o (IF parse.ok
        THEN check_required_fields(cfg, parse.value, path)
             \o check_value_types(cfg, parse.value, path)
             \o check_duplicates(cfg, parse.value, path)
        ELSE <<>>)

check_file(cfg, text, parse, path) ==
    IF ~parse.ok THEN << SyntaxResult(text, path) >>
    ELSE check_indentation(cfg, text, path)
         \o check_trailing_spaces(cfg, text, path)
         \o check_line_length(cfg, text, path)
         \o check_empty_lines(cfg, text, path)
         \o check_required_fields(cfg, parse.value, path)
         \o check_value_types(cfg, parse.value, path)
         \o check_duplicates(cfg, parse.value, path)

\* passed with warnings blocking too: a variant of the verdict
Passed_strict(rs) ==
    ~(\E i \in 1..Len(rs) : is_error(rs[i]) \/ is_warning(rs[i]))

Passed(rs) == ~(\E i \in 1..Len(rs) : is_error(rs[i]))

LintReport(path, rs) == [file |-> path, results |-> rs, passed |-> Passed(rs)]

NoReport == [file |-> <<>>, results |-> <<>>, passed |-> TRUE]

(***************************************************************************)
(* The rewriter (src/src/formatter.rs): fix_content and its steps, on the  *)
(* list of lines.                                                          *)
(***************************************************************************)
\* fix_indentation rounding a partial unit up: a variant of the new indent
fix_indentation_round_up(cfg, ls) ==
    LET expected_spaces == cfg.spaces
        one(line) ==
            IF trim(line) = <<>> THEN line
            ELSE IF starts_with(line, " ")
                 THEN LET leading_spaces == Len(line) - Len(trim_start(line))
                          new_indent ==
                              ((leading_spaces + expected_spaces - 1) \div expected_spaces)
                                  * expected_spaces
                      IN Rep(" ", new_indent) \o trim_start(line)
                 ELSE line
    IN [i \in 1..Len(ls) |-> one(ls[i])]

fix_indentation(cfg, ls) ==
    LET expected_spaces == cfg.spaces
        one(line) ==
            IF trim(line) = <<>> THEN line
            ELSE IF starts_with(line, " ")
                 THEN LET leading_spaces == Len(line) - Len(trim_start(line))
                          new_indent == (leading_spaces \div expected_spaces) * expected_spaces
                      IN Rep(" ", new_indent) \o trim_start(line)
                 ELSE line
    IN [i \in 1..Len(ls) |-> one(ls[i])]

fix_trailing_spaces(ls) == [i \in 1..Len(ls) |-> trim_end(ls[i])]

\* while !lines.is_empty() && lines[0].trim().is_empty() { lines.remove(0) }
RECURSIVE RemoveLeadingEmpty(_)
RemoveLeadingEmpty(ls) ==
    IF ls # <<>> /\ trim(ls[1]) = <<>> THEN RemoveLeadingEmpty(Tail(ls)) ELSE ls

\* the second loop with if for while: a variant that pops one line at most
RemoveTrailingEmpty_once(ls) ==
    IF ls # <<>> /\ trim(ls[Len(ls)]) = <<>> THEN SubSeq(ls, 1, Len(ls) - 1) ELSE ls

\* while !lines.is_empty() && lines.last().trim().is_empty() { lines.pop() }
RECURSIVE RemoveTrailingEmpty(_)
RemoveTrailingEmpty(ls) ==
    IF ls # <<>> /\ trim(ls[Len(ls)]) = <<>>
    THEN RemoveTrailingEmpty(SubSeq(ls, 1, Len(ls) - 1)) ELSE ls

\* the inner loop: the number of lines from position i on that are empty
RECURSIVE Consecutive(_, _)
Consecutive(ls, i) ==
    IF i <= Len(ls) /\ trim(ls[i]) = <<>> THEN 1 + Consecutive(ls, i + 1) ELSE 0

\* the outer loop, i being the position of the next line (from 1)
RECURSIVE RemoveExcessEmpty(_, _, _)
RemoveExcessEmpty(cfg, ls, i) ==
    IF i > Len(ls) THEN ls
    ELSE IF trim(ls[i]) = <<>>
         THEN LET consecutive == Consecutive(ls, i)
                  j == i + consecutive
              IN IF consecutive > cfg.max_consecutive
                 THEN LET to_remove == consecutive - cfg.max_consecutive
                      IN RemoveExcessEmpty(cfg,
                             SubSeq(ls, 1, i - 1) \o SubSeq(ls, i + to_remove, Len(ls)),
                             i + cfg.max_consecutive)
                 ELSE RemoveExcessEmpty(cfg, ls, j)
         ELSE RemoveExcessEmpty(cfg, ls, i + 1)

\* fix_empty_lines up to its last statement: the three loops
NormalizeEmpty(cfg, ls) ==
    RemoveExcessEmpty(cfg, RemoveTrailingEmpty(RemoveLeadingEmpty(ls)), 1)

\* fix_empty_lines without its second loop: a variant that keeps the
\* trailing empty lines
fix_empty_lines_keep_trailing(cfg, ls) ==
    LET kept == RemoveExcessEmpty(cfg, RemoveLeadingEmpty(ls), 1)
    IN IF cfg.max_end > 0 THEN Append(kept, <<>>) ELSE kept

\* fix_empty_lines with max_end used as a count: a variant that appends
\* max_end empty lines
fix_empty_lines_by_count(cfg, ls) ==
    NormalizeEmpty(cfg, ls) \o [i \in 1..cfg.max_end |-> <<>>]

fix_empty_lines(cfg, ls) ==
    IF cfg.max_end > 0 THEN Append(NormalizeEmpty(cfg, ls), <<>>)
    ELSE NormalizeEmpty(cfg, ls)

\* str::replace with a pattern that is not empty: the occurrences that do
\* not overlap, from the left
RECURSIVE replace(_, _, _)
replace(s, from, to) ==
    IF Len(s) < Len(from) THEN s
    ELSE IF SubSeq(s, 1, Len(from)) = from
         THEN to \o replace(Drop(s, Len(from)), from, to)
         ELSE <<Head(s)>> \o replace(Tail(s), from, to)

Quotes == {"\"", "'"}

\* Regex "([^"]*)"|'([^']*)' on a line: the positions <<i, j>> of the
\* quotes of its leftmost match, if it has one
QuotedSpans(line) ==
    {<<i, j>> \in (1..Len(line)) \X (1..Len(line)) :
        /\ i < j
        /\ line[i] \in Quotes
        /\ line[j] = line[i]
        /\ \A k \in (i + 1)..(j - 1) : line[k] # line[i]}

FirstSpan(line) ==
    CHOOSE sp \in QuotedSpans(line) : \A o \in QuotedSpans(line) : sp[1] <= o[1]

fix_quotes(cfg, ls) ==
    LET one(line) ==
            IF cfg.prefer_double THEN replace(line, <<"'">>, <<"\"">>)
            ELSE IF QuotedSpans(line) = {} THEN line
                 ELSE LET sp == FirstSpan(line)
                          text == SubSeq(line, sp[1] + 1, sp[2] - 1)
                      IN IF ~contains(text, <<":">>) /\ ~contains(text, <<"#">>)
                            /\ text # <<>>
                         THEN replace(replace(line, <<"\"">> \o text \o <<"\"">>, text),
                                      <<"'">> \o text \o <<"'">>, text)
                         ELSE line
    IN [i \in 1..Len(ls) |-> one(ls[i])]

\* [String]::join("\n")
join(ls) ==
    ConcatAll([i \in 1..Len(ls) |-> IF i < Len(ls) THEN ls[i] \o <<"\n">> ELSE ls[i]])

fix_content(cfg, text) ==
    join(fix_quotes(cfg,
           fix_empty_lines(cfg,
             fix_trailing_spaces(fix_indentation(cfg, lines(text))))))
    \o <<"\n">>

\* the value of fix_content's local `lines` after each of its steps, and
\* the text it returns
FixTrace(cfg, text) ==
    LET indented == fix_indentation(cfg, lines(text))
        trimmed == fix_trailing_spaces(indented)
        stripped == RemoveTrailingEmpty(RemoveLeadingEmpty(trimmed))
        normalized == NormalizeEmpty(cfg, trimmed)
        ended == fix_empty_lines(cfg, trimmed)
        quoted == fix_quotes(cfg, ended)
    IN [ input       |-> lines(text),
         indentation |-> indented,
         trailing    |-> trimmed,
         stripped    |-> stripped,
         excess      |-> normalized,
         empty       |-> ended,
         quotes      |-> quoted,
         text        |-> fix_content(cfg, text) ]

(***************************************************************************)
(* The inputs drawn.                                                       *)
(***************************************************************************)
TextAlphabet == {" ", "\t", "a", "\n"}

\* one line as long as the default maximum and one a character longer
LongTexts ==
    {Rep("a", DefaultConfig.line_length_max),
     Rep("a", DefaultConfig.line_length_max + 1)}

Texts == SeqsUpTo(TextAlphabet, MaxLen) \cup LongTexts

\* the default configuration with one rule's settings varied
TextConfigs ==
    {[DefaultConfig EXCEPT !.spaces = u] : u \in 1..MaxUnit}
    \cup {[DefaultConfig EXCEPT !.trailing_spaces = l] : l \in Severity}
    \cup {[DefaultConfig EXCEPT !.line_length_max = m] : m \in 0..MaxLineMax}
    \cup {[DefaultConfig EXCEPT !.max_start = a, !.max_consecutive = b] :
            a \in 0..MaxBlank, b \in 0..MaxBlank}

P_a_yaml == <<"a", ".", "y", "a", "m", "l">>
P_deploy_k8s_app_yaml ==
    <<"d", "e", "p", "l", "o", "y", "/", "k", "8", "s", "/", "a", "p", "p", ".", "y", "a", "m", "l">>
P_k8s_star_yaml == <<"k", "8", "s", "/", "*", ".", "y", "a", "m", "l">>
P_src_app_yaml == <<"s", "r", "c", "/", "a", "p", "p", ".", "y", "a", "m", "l">>

S_x == <<"x">>

\* a document "kind: x"
PlainRoot == VMapping(<< <<VString(S_kind), VString(S_x)>> >>)

PlainText == <<"k", "i", "n", "d", ":", " ", "x", "\n">>

\* no run over a directory is under way
NoRun ==
    /\ command = [name |-> "none"]
    /\ walk = <<>>
    /\ next = 1
    /\ disk = <<>>
    /\ reports = <<>>
    /\ outcome = "none"
    /\ events = <<>>

InitText ==
    /\ content \in Texts
    /\ parsed \in {ParseErr, ParseOk(PlainRoot)}
    /\ file_path = P_a_yaml
    /\ config \in TextConfigs
    /\ results = <<>>
    /\ report = NoReport
    /\ pc = "start"
    /\ fixed = <<>>
    /\ NoRun
    /\ loop = <<>>

(***************************************************************************)
(* The trees, paths and required-fields settings drawn.                    *)
(***************************************************************************)
\* deepest nesting of containers drawn for the value-types rule
MaxDepth == 2

S_yes == <<"y", "e", "s">>
S_No == <<"N", "o">>
S_TRUE == <<"T", "R", "U", "E">>
S_false == <<"f", "a", "l", "s", "e">>
S_truee == <<"t", "r", "u", "e", "e">>
S_12 == <<"1", "2">>
S_minus3 == <<"-", "3">>
S_1_5 == <<"1", ".", "5">>
S_1e5 == <<"1", "e", "5">>
S_nan == <<"n", "a", "n">>
S_Inf == <<"I", "n", "f">>
S_abc == <<"a", "b", "c">>
S_dot == <<".">>
S_e5 == <<"e", "5">>
S_plus == <<"+">>
S_1dot == <<"1", ".">>
S_dot5 == <<".", "5">>
S_x1 == <<"x", "1">>
S_k == <<"k">>

\* string leaves: boolean-like, number-like and neither, in several spellings
LeafStrings ==
    {S_yes, S_No, S_TRUE, S_false, S_truee, S_12, S_minus3, S_1_5, S_1e5, S_nan,
     S_Inf, S_abc, S_dot, S_e5, S_plus, S_1dot, S_dot5, S_x1, <<>>}

\* every spelling, in upper and lower case letters, of the four words the
\* boolean check compares with
CaseVariants ==
    LET upper == [t |-> "T", r |-> "R", u |-> "U", e |-> "E", f |-> "F", a |-> "A",
                  l |-> "L", s |-> "S", y |-> "Y", n |-> "N", o |-> "O"]
    IN UNION {{[i \in 1..Len(w) |-> IF i \in U THEN upper[w[i]] ELSE w[i]] :
                  U \in SUBSET (1..Len(w))}
              : w \in {<<"t", "r", "u", "e">>, <<"f", "a", "l", "s", "e">>,
                       <<"y", "e", "s">>, <<"n", "o">>}}

Leaves ==
    {VString(s) : s \in LeafStrings \cup CaseVariants}
    \cup {VNumber(12), VBool(TRUE), VNull}

\* the leaves that the containers are built over
NestLeaves == {VString(S_No), VString(S_12), VString(S_abc), VNumber(12), VNull}

Siblings == {VString(S_yes), VBool(TRUE)}

\* mapping keys: strings (a boolean-like one among them) and a number
WrapKeys == {VString(S_yes), VString(S_k), VNumber(12)}

\* the containers that hold a tree t directly
Wraps(t) ==
    {VSequence(<<t>>)}
    \cup {VSequence(<<u, t>>) : u \in Siblings}
    \cup {VMapping(<< <<k, t>> >>) : k \in WrapKeys}
    \cup {VMapping(<< <<VString(S_yes), u>>, <<VString(S_k), t>> >>) : u \in Siblings}

RECURSIVE Nested(_)
Nested(d) ==
    IF d = 0 THEN NestLeaves ELSE UNION {Wraps(t) : t \in Nested(d - 1)}

ValueTrees ==
    Leaves \cup {VSequence(<<>>), VMapping(<<>>)}
    \cup UNION {Nested(d) : d \in 1..MaxDepth}

ValueConfigs ==
    {[DefaultConfig EXCEPT !.check_bool_values = b, !.strict_numbers = n] :
        b \in BOOLEAN, n \in BOOLEAN}

\* what the key metadata may hold
MetadataValues ==
    {VMapping(<< <<VString(S_name), VString(S_x)>> >>),
     VMapping(<< <<VString(S_kind), VString(S_x)>> >>),
     VMapping(<<>>),
     VString(S_x),
     VSequence(<< VString(S_name) >>),
     VNull}

\* root mappings over apiVersion, kind and metadata, and roots of other kinds
RequiredRoots ==
    LET api == {<<>>, << <<VString(S_apiVersion), VString(S_x)>> >>}
        kind == {<<>>, << <<VString(S_kind), VString(S_x)>> >>}
        meta == {<<>>} \cup {<< <<VString(S_metadata), v>> >> : v \in MetadataValues}
    IN {VMapping(a \o k \o m) : a \in api, k \in kind, m \in meta}
       \cup {VMapping(m \o k) : k \in kind, m \in meta}
       \cup {VString(S_metadata), VSequence(<< VString(S_kind) >>), VNull}

RequiredPaths == {P_deploy_k8s_app_yaml, P_k8s_star_yaml, P_src_app_yaml, P_a_yaml}

Pat_k8s == <<"k", "8", "s">>
Pat_star_k8s_star == <<"*", "/", "k", "8", "s", "/", "*">>
Pat_slash_k8s_slash == <<"/", "*", "k", "8", "s", "*", "/">>
Pat_stars == <<"*", "*">>
Pat_app == <<"a", "p", "p">>

Patterns == {DefaultPattern, Pat_k8s, Pat_star_k8s_star, Pat_slash_k8s_slash, Pat_stars}

FieldLists ==
    {<<S_apiVersion, S_kind, S_metadata_name>>,
     <<S_metadata_name, S_kind>>,
     <<S_metadata_name>>,
     <<>>}

\* required_fields.paths: no entry, one entry, or two entries in either
\* iteration order
RequiredEntries ==
    {<<>>}
    \cup {<< <<p, f>> >> : p \in Patterns, f \in FieldLists}
    \cup {<< <<p, <<S_kind>> >>, <<Pat_app, <<S_metadata_name>> >> >> : p \in Patterns}
    \cup {<< <<Pat_app, <<S_metadata_name>> >>, <<p, <<S_kind>> >> >> : p \in Patterns}

RequiredConfigs == {[DefaultConfig EXCEPT !.paths = e] : e \in RequiredEntries}

\* The structural rules read the tree and the path only, so the text is
\* held fixed here and stands for any text whose parse is the tree drawn.
InitRequired ==
    /\ content = PlainText
    /\ parsed \in {ParseOk(v) : v \in RequiredRoots}
    /\ file_path \in RequiredPaths
    /\ config \in RequiredConfigs
    /\ results = <<>>
    /\ report = NoReport
    /\ pc = "start"
    /\ fixed = <<>>
    /\ NoRun
    /\ loop = <<>>

InitValues ==
    /\ content = PlainText
    /\ parsed \in {ParseOk(v) : v \in ValueTrees}
    /\ file_path = P_a_yaml
    /\ config \in ValueConfigs
    /\ results = <<>>
    /\ report = NoReport
    /\ pc = "start"
    /\ fixed = <<>>
    /\ NoRun
    /\ loop = <<>>

(***************************************************************************)
(* The documents drawn for the parse: block mappings as they are written.  *)
(* A written mapping is its entries <<key, node>> in the order of the      *)
(* text, a key being a string and a node a scalar or a written mapping; a  *)
(* key may be written more than once.                                      *)
(***************************************************************************)
Block(entries) == [kind |-> "Block", entries |-> entries]

S_a == <<"a">>
S_b == <<"b">>
S_c == <<"c">>

Indent == <<" ", " ">>

\* the text of a written mapping: one "key: scalar" line for each scalar
\* entry, and a "key:" line followed by the indented entries of a nested one
RECURSIVE RenderEntries(_, _)
RenderEntries(entries, indent) ==
    ConcatAll([i \in 1..Len(entries) |->
        LET k == entries[i][1]
            v == entries[i][2]
        IN IF v.kind = "Block"
           THEN indent \o k \o <<":", "\n">> \o RenderEntries(v.entries, indent \o Indent)
           ELSE indent \o k \o <<":", " ">> \o v.s \o <<"\n">>])

\* some mapping of the written node, at any depth, writes a key twice
RECURSIVE Repeats(_)
Repeats(node) ==
    /\ node.kind = "Block"
    /\ \/ \E i, j \in 1..Len(node.entries) : i < j /\ node.entries[i][1] = node.entries[j][1]
       \/ \E i \in 1..Len(node.entries) : Repeats(node.entries[i][2])

\* Mapping::insert of each written entry in turn into a map that holds one
\* entry per key: a key written again replaces the entry's value, and the
\* entry keeps its place or (move) goes to the end of the iteration order
RECURSIVE ToValue(_, _)
RECURSIVE InsertAll(_, _, _)
InsertAll(entries, acc, move) ==
    IF entries = <<>> THEN acc
    ELSE LET k == VString(Head(entries)[1])
             v == ToValue(Head(entries)[2], move)
             hit == {i \in 1..Len(acc) : acc[i][1] = k}
             at == CHOOSE i \in hit : TRUE
             inserted ==
                 IF hit = {} THEN Append(acc, <<k, v>>)
                 ELSE IF move
                      THEN Append(SubSeq(acc, 1, at - 1) \o SubSeq(acc, at + 1, Len(acc)),
                                  <<k, v>>)
                      ELSE [acc EXCEPT ![at] = <<k, v>>]
         IN InsertAll(Tail(entries), inserted, move)

ToValue(node, move) ==
    IF node.kind = "Block" THEN VMapping(InsertAll(node.entries, <<>>, move))
    ELSE node

\* serde_yaml::from_str::<Value> on the text of a written node.  The tree
\* it builds holds one entry per key; for a key written twice the library
\* version decides between an error and a collapsed mapping, so each is an
\* outcome.
from_str(node) ==
    IF Repeats(node)
    THEN {ParseErr, ParseOk(ToValue(node, FALSE)), ParseOk(ToValue(node, TRUE))}
    ELSE {ParseOk(ToValue(node, FALSE))}

\* longest root mapping written
MaxEntries == 3

WrittenKeys == {S_a, S_b, S_c}

\* what a root entry holds: a scalar, or a nested mapping that may repeat a
\* key of its own or use a key of the root
WrittenNodes ==
    {VString(S_x),
     Block(<< <<S_a, VString(S_x)>> >>),
     Block(<< <<S_a, VString(S_x)>>, <<S_a, VString(S_x)>> >>)}

\* root mappings of one to MaxEntries entries; one entry of each may hold a
\* nested mapping
WrittenDocs ==
    LET scalar(keys) == [i \in 1..Len(keys) |-> <<keys[i], VString(S_x)>>]
    IN UNION {{Block(scalar(keys))}
              \cup {Block([scalar(keys) EXCEPT ![i] = <<keys[i], n>>]) :
                      i \in 1..Len(keys), n \in WrittenNodes}
              : keys \in SeqsUpTo(WrittenKeys, MaxEntries) \ {<<>>}}

DuplicatesConfigs == {[DefaultConfig EXCEPT !.duplicates = l] : l \in Severity}

InitParse ==
    /\ \E w \in WrittenDocs :
           /\ content = RenderEntries(w.entries, <<>>)
           /\ parsed \in from_str(w)
    /\ file_path = P_a_yaml
    /\ config \in DuplicatesConfigs
    /\ results = <<>>
    /\ report = NoReport
    /\ pc = "start"
    /\ fixed = <<>>
    /\ NoRun
    /\ loop = <<>>

(***************************************************************************)
(* The texts and settings drawn for the rewriter.                          *)
(***************************************************************************)
QuoteAlphabet == {"'", "\"", "a", " "}

\* "  key:   value   " followed by three blank lines
KeyValueText ==
    <<" ", " ", "k", "e", "y", ":", " ", " ", " ", "v", "a", "l", "u", "e", " ", " ", " ",
      "\n", "\n", "\n", "\n">>

\* most lines of a text drawn line by line
MaxLines == 6

\* texts of up to MaxLines lines, each the line "a" or an empty line
LineTexts ==
    {ConcatAll([i \in 1..Len(ls) |-> ls[i] \o <<"\n">>]) :
        ls \in SeqsUpTo({<<"a">>, <<>>}, MaxLines)}

\* the pieces of a line with quoted spans: "a", 'a', a, a space, a lone
\* double quote and "a:"
QuoteTokens ==
    {<<"\"", "a", "\"">>, <<"'", "a", "'">>, <<"a">>, <<" ">>, <<"\"">>,
     <<"\"", "a", ":", "\"">>}

\* most pieces of a line drawn piece by piece
MaxTokens == 3

TokenTexts == {ConcatAll(ts) : ts \in SeqsUpTo(QuoteTokens, MaxTokens)}

FixTexts ==
    SeqsUpTo(TextAlphabet, MaxLen) \cup SeqsUpTo(QuoteAlphabet, MaxLen)
    \cup LineTexts \cup {KeyValueText} \cup TokenTexts

\* the default configuration with the unit varied (4 among the units), with
\* the blank-line settings varied, and with double quotes preferred
FixConfigs ==
    {[DefaultConfig EXCEPT !.spaces = u] : u \in (1..MaxUnit) \cup {4}}
    \cup {[DefaultConfig EXCEPT !.max_consecutive = b, !.max_end = e] :
            b \in 0..MaxBlank, e \in 0..MaxBlank}
    \cup {[DefaultConfig EXCEPT !.prefer_double = TRUE]}

\* the rewriter reads the text and the config only; it does not parse
InitFix ==
    /\ content \in FixTexts
    /\ parsed = ParseErr
    /\ file_path = P_a_yaml
    /\ config \in FixConfigs
    /\ results = <<>>
    /\ report = NoReport
    /\ pc = "start"
    /\ fixed = <<>>
    /\ NoRun
    /\ loop = <<>>

(***************************************************************************)
(* Paths, the exclusion list and the files of a directory run.             *)
(***************************************************************************)
\* the position of the "." that begins the extension: the last "." of the
\* file name (the text after the last "/") that is not its first
\* character, 0 when there is none
ExtensionDot(p) ==
    LET slashes == {i \in 1..Len(p) : p[i] = "/"} \cup {0}
        slash == CHOOSE i \in slashes : \A j \in slashes : j <= i
        dots == {i \in (slash + 2)..Len(p) : p[i] = "."} \cup {0}
    IN CHOOSE i \in dots : \A j \in dots : j <= i

\* Path::extension, an absent extension being the empty string
extension(p) == IF ExtensionDot(p) = 0 THEN <<>> ELSE Drop(p, ExtensionDot(p))

\* Path::with_extension
with_extension(p, ext) ==
    (IF ExtensionDot(p) = 0 THEN p ELSE SubSeq(p, 1, ExtensionDot(p) - 1))
    \o <<".">> \o ext

backup_path(p) == with_extension(p, <<"y", "a", "m", "l", ".", "b", "a", "k">>)

\* Config::should_exclude
should_exclude(cfg, path) ==
    \E i \in 1..Len(cfg.exclude) :
        contains(path, trim_end_matches(trim_end_matches(cfg.exclude[i], "/"), "*"))

\* what the walk yields: a path that is a file or a directory, or an error
WalkEntry(path, file) == [path |-> path, file |-> file, error |-> FALSE]

WalkErr == [path |-> <<>>, file |-> FALSE, error |-> TRUE]

\* path.is_file() && the extension is yaml or yml
IsYamlFile(e) ==
    e.file /\ extension(e.path) \in {<<"y", "a", "m", "l">>, <<"y", "m", "l">>}

P_d_a_yaml == <<"d", "/", "a", ".", "y", "a", "m", "l">>
P_d_a_yml == <<"d", "/", "a", ".", "y", "m", "l">>
P_d_node_modules == <<"d", "/", "n", "o", "d", "e", "_", "m", "o", "d", "u", "l", "e", "s">>
P_d_node_modules_b_yaml == P_d_node_modules \o <<"/", "b", ".", "y", "a", "m", "l">>
P_d_c_txt == <<"d", "/", "c", ".", "t", "x", "t">>

FilePaths == {P_d_a_yaml, P_d_a_yml, P_d_node_modules_b_yaml, P_d_c_txt}

\* most entries a walk yields
MaxWalk == 2

\* the walks drawn: one to MaxWalk entries, each a file, the directory
\* d/node_modules or an error, and no entry twice
Walks ==
    LET entries == {WalkEntry(p, TRUE) : p \in FilePaths}
                   \cup {WalkEntry(P_d_node_modules, FALSE), WalkErr}
    IN {w \in SeqsUpTo(entries, MaxWalk) :
           w # <<>> /\ \A i, j \in 1..Len(w) : i # j => w[i] # w[j]}

Absent == [exists |-> FALSE]
FileOf(text) == [exists |-> TRUE, text |-> text]

\* a text without a diagnostic that the rewriter changes, a text with a
\* trailing space, and a text the rewriter leaves as it is
FileTexts == {<<"a">>, <<"a", " ", "\n">>, <<"a", "\n", "\n">>}

\* the files of the directory walked hold a text each; no backup exists
Disks(w) ==
    LET present == {w[i].path : i \in {j \in 1..Len(w) : w[j].file}}
        paths == FilePaths \cup {backup_path(p) : p \in FilePaths}
    IN {[p \in paths |-> IF p \in present THEN FileOf(t[p]) ELSE Absent] :
           t \in [present -> FileTexts]}

\* serde_yaml::from_str on a text that is one plain scalar
ScalarParse(text) == ParseOk(VString(trim(text)))

\* check with or without --fix on a directory or on one file, and format
\* with or without --in-place
Commands ==
    {[name |-> "check", fix |-> f, single |-> o, in_place |-> FALSE] :
        f \in BOOLEAN, o \in BOOLEAN}
    \cup {[name |-> "format", fix |-> FALSE, single |-> FALSE, in_place |-> i] :
            i \in BOOLEAN}

\* the default configuration, with the exclusion list the default one, the
\* one pattern "node_modules/", the one pattern "*/node_modules/*" or
\* empty, and with the backups switched off
RunConfigs ==
    {[DefaultConfig EXCEPT !.exclude = x] :
        x \in {DefaultConfig.exclude,
               << <<"n", "o", "d", "e", "_", "m", "o", "d", "u", "l", "e", "s", "/">> >>,
               << <<"*", "/", "n", "o", "d", "e", "_", "m", "o", "d", "u", "l", "e", "s",
                    "/", "*">> >>,
               <<>>}}
    \cup {[DefaultConfig EXCEPT !.backup_files = FALSE]}

InitRun ==
    /\ command \in Commands
    /\ walk \in Walks
    /\ command.single => Len(walk) = 1 /\ walk[1].file
    /\ disk \in Disks(walk)
    /\ config \in RunConfigs
    /\ pc = IF command.name = "format" THEN "format"
            ELSE IF command.single THEN "lint_file" ELSE "lint"
    /\ next = 1
    /\ reports = <<>>
    /\ outcome = "none"
    /\ events = <<>>
    /\ content = <<>>
    /\ parsed = ParseErr
    /\ file_path = <<>>
    /\ results = <<>>
    /\ report = NoReport
    /\ fixed = <<>>
    /\ loop = <<>>

(***************************************************************************)
(* The operations.                                                         *)
(***************************************************************************)
\* RuleChecker::check_file on the document
CheckFile ==
    /\ pc = "start"
    /\ results' = check_file(config, content, parsed, file_path)
    /\ pc' = "checked"
    /\ UNCHANGED <<content, parsed, file_path, config, report, fixed, run>>
    /\ UNCHANGED loop

\* YamlLinter::lint_file on the document
LintFile ==
    /\ pc = "start"
    /\ results' = check_file(config, content, parsed, file_path)
    /\ report' = LintReport(file_path, results')
    /\ pc' = "linted"
    /\ UNCHANGED <<content, parsed, file_path, config, fixed, run>>
    /\ UNCHANGED loop

Next == CheckFile \/ LintFile

Init == InitText

Spec == Init /\ [][Next]_vars

\* the structural rules, over the trees drawn
InitTree == InitRequired \/ InitValues

SpecTree == InitTree /\ [][Next]_vars

\* the parse and the duplicate-keys rule, over the documents written
SpecParse == InitParse /\ [][Next]_vars

\* check_file over all the documents drawn: the texts, the trees and the
\* documents written
InitAll == InitText \/ InitTree \/ InitParse

SpecAll == InitAll /\ [][Next]_vars

\* fix_content on the document's text
FixContent ==
    /\ pc = "start"
    /\ fixed' = << FixTrace(config, content) >>
    /\ pc' = "fixed"
    /\ UNCHANGED <<content, parsed, file_path, config, results, report, run>>
    /\ UNCHANGED loop

\* fix_content on the text it returned
FixAgain ==
    /\ pc = "fixed"
    /\ fixed' = Append(fixed, FixTrace(config, fixed[1].text))
    /\ pc' = "refixed"
    /\ UNCHANGED <<content, parsed, file_path, config, results, report, run>>
    /\ UNCHANGED loop

NextFix == FixContent \/ FixAgain

SpecFix == InitFix /\ [][NextFix]_vars

(***************************************************************************)
(* The runs: lint_directory and lint_file called by the check command,     *)
(* auto_fix_files and auto_fix_file, and format_files.  Each file          *)
(* operation succeeds or fails.                                            *)
(***************************************************************************)
Event(op, path, ok) == [op |-> op, path |-> path, ok |-> ok]

\* `entry?` on an error of the walk, in lint_directory and in format_files
WalkError ==
    /\ pc \in {"lint", "format"}
    /\ next <= Len(walk)
    /\ walk[next].error
    /\ outcome' = "Err"
    /\ pc' = "done"
    /\ UNCHANGED <<content, parsed, file_path, config, results, report, fixed,
                   command, walk, next, disk, reports, events>>
    /\ UNCHANGED loop

\* lint_directory: an entry that is no YAML file, or an excluded one
LintSkip ==
    /\ pc = "lint"
    /\ next <= Len(walk)
    /\ ~walk[next].error
    /\ ~IsYamlFile(walk[next]) \/ should_exclude(config, walk[next].path)
    /\ next' = next + 1
    /\ UNCHANGED <<content, parsed, file_path, config, results, report, fixed, pc,
                   command, walk, disk, reports, outcome, events>>
    /\ UNCHANGED loop

\* YamlLinter::lint_file on a path whose text has been read
Linted(path) ==
    /\ file_path' = path
    /\ content' = disk[path].text
    /\ parsed' = ScalarParse(content')
    /\ results' = check_file(config, content', parsed', path)
    /\ report' = LintReport(path, results')

\* lint_directory: lint_file on an entry, its report pushed or its error
\* printed
LintEntry ==
    /\ pc = "lint"
    /\ next <= Len(walk)
    /\ ~walk[next].error
    /\ IsYamlFile(walk[next])
    /\ ~should_exclude(config, walk[next].path)
    /\ \E ok \in BOOLEAN :
           /\ events' = Append(events, Event("read", walk[next].path, ok))
           /\ IF ok
              THEN /\ Linted(walk[next].path)
                   /\ reports' = Append(reports, report')
              ELSE UNCHANGED <<content, parsed, file_path, results, report, reports>>
    /\ next' = next + 1
    /\ UNCHANGED <<config, fixed, pc, command, walk, disk, outcome>>
    /\ UNCHANGED loop

\* lint_directory returns its reports; the check command goes on to
\* auto_fix_files when fixing is asked for
LintDone ==
    /\ pc = "lint"
    /\ next > Len(walk)
    /\ IF command.fix
       THEN pc' = "fix" /\ next' = 1 /\ UNCHANGED outcome
       ELSE pc' = "done" /\ outcome' = "Ok" /\ UNCHANGED next
    /\ UNCHANGED <<content, parsed, file_path, config, results, report, fixed,
                   command, walk, disk, reports, events>>
    /\ UNCHANGED loop

\* the check command on one file: vec![linter.lint_file(&path)?]
LintSingle ==
    /\ pc = "lint_file"
    /\ \E ok \in BOOLEAN :
           /\ events' = Append(events, Event("read", walk[1].path, ok))
           /\ IF ok
              THEN /\ Linted(walk[1].path)
                   /\ reports' = << report' >>
                   /\ IF command.fix
                      THEN pc' = "fix" /\ UNCHANGED outcome
                      ELSE pc' = "done" /\ outcome' = "Ok"
              ELSE /\ outcome' = "Err"
                   /\ pc' = "done"
                   /\ UNCHANGED <<content, parsed, file_path, results, report, reports>>
    /\ UNCHANGED <<config, fixed, command, walk, next, disk>>
    /\ UNCHANGED loop

\* the step after the file has been read and the new text computed, with
\* the backup left out: a variant that goes straight to the write
AfterRead_no_backup(cfg) == "write"

\* the step after the file has been read and the new text computed
AfterRead(cfg) == IF cfg.backup_files THEN "backup" ELSE "write"

\* auto_fix_files: a report without results is passed over
FixSkip ==
    /\ pc = "fix"
    /\ next <= Len(reports)
    /\ reports[next].results = <<>>
    /\ next' = next + 1
    /\ UNCHANGED <<content, parsed, file_path, config, results, report, fixed, pc,
                   command, walk, disk, reports, outcome, events>>
    /\ UNCHANGED loop

\* auto_fix_file up to fix_content: the file is read, or the error returned
FixRead ==
    /\ pc = "fix"
    /\ next <= Len(reports)
    /\ reports[next].results # <<>>
    /\ \E ok \in BOOLEAN :
           /\ events' = Append(events, Event("read", reports[next].file, ok))
           /\ IF ok
              THEN /\ file_path' = reports[next].file
                   /\ content' = disk[reports[next].file].text
                   /\ fixed' = << FixTrace(config, content') >>
                   /\ pc' = AfterRead(config)
                   /\ UNCHANGED outcome
              ELSE /\ outcome' = "Err"
                   /\ pc' = "done"
                   /\ UNCHANGED <<content, file_path, fixed>>
    /\ UNCHANGED <<parsed, config, results, report, command, walk, next, disk, reports>>
    /\ UNCHANGED loop

\* auto_fix_files returns Ok
FixDone ==
    /\ pc = "fix"
    /\ next > Len(reports)
    /\ outcome' = "Ok"
    /\ pc' = "done"
    /\ UNCHANGED <<content, parsed, file_path, config, results, report, fixed,
                   command, walk, next, disk, reports, events>>
    /\ UNCHANGED loop

\* fs::copy(path, backup_path)?: a failed copy may have created or emptied
\* the backup
Backup ==
    /\ pc = "backup"
    /\ \E ok \in BOOLEAN :
           /\ events' = Append(events, Event("copy", file_path, ok))
           /\ IF ok
              THEN /\ disk' = [disk EXCEPT ![backup_path(file_path)] = disk[file_path]]
                   /\ pc' = "write"
                   /\ UNCHANGED outcome
              ELSE /\ disk' \in {disk, [disk EXCEPT ![backup_path(file_path)] = FileOf(<<>>)]}
                   /\ outcome' = "Err"
                   /\ pc' = "done"
    /\ UNCHANGED <<content, parsed, file_path, config, results, report, fixed,
                   command, walk, next, reports>>
    /\ UNCHANGED loop

\* the write with `content` for `fixed_content`: a variant that writes
\* back the text that was read
Write_unfixed ==
    /\ pc = "write"
    /\ \E ok \in BOOLEAN :
           /\ events' = Append(events, Event("write", file_path, ok))
           /\ IF ok
              THEN /\ disk' = [disk EXCEPT ![file_path] = FileOf(content)]
                   /\ next' = next + 1
                   /\ pc' = IF command.name = "format" THEN "format" ELSE "fix"
                   /\ UNCHANGED outcome
              ELSE /\ disk' \in {disk, [disk EXCEPT ![file_path] = FileOf(<<>>)]}
                   /\ outcome' = "Err"
                   /\ pc' = "done"
                   /\ UNCHANGED next
    /\ UNCHANGED <<content, parsed, file_path, config, results, report, fixed,
                   command, walk, reports>>
    /\ UNCHANGED loop

\* fs::write(path, fixed_content)?: a failed write may have emptied the
\* file; after the write the loop of the command goes on
Write ==
    /\ pc = "write"
    /\ \E ok \in BOOLEAN :
           /\ events' = Append(events, Event("write", file_path, ok))
           /\ IF ok
              THEN /\ disk' = [disk EXCEPT ![file_path] = FileOf(fixed[1].text)]
                   /\ next' = next + 1
                   /\ pc' = IF command.name = "format" THEN "format" ELSE "fix"
                   /\ UNCHANGED outcome
              ELSE /\ disk' \in {disk, [disk EXCEPT ![file_path] = FileOf(<<>>)]}
                   /\ outcome' = "Err"
                   /\ pc' = "done"
                   /\ UNCHANGED next
    /\ UNCHANGED <<content, parsed, file_path, config, results, report, fixed,
                   command, walk, reports>>
    /\ UNCHANGED loop

\* format_files: an entry that is no YAML file
FormatSkip ==
    /\ pc = "format"
    /\ next <= Len(walk)
    /\ ~walk[next].error
    /\ ~IsYamlFile(walk[next])
    /\ next' = next + 1
    /\ UNCHANGED <<content, parsed, file_path, config, results, report, fixed, pc,
                   command, walk, disk, reports, outcome, events>>
    /\ UNCHANGED loop

\* format_files: the file is read and fix_content applied; a changed text
\* is written in place or printed
FormatRead ==
    /\ pc = "format"
    /\ next <= Len(walk)
    /\ ~walk[next].error
    /\ IsYamlFile(walk[next])
    /\ \E ok \in BOOLEAN :
           /\ events' = Append(events, Event("read", walk[next].path, ok))
           /\ IF ok
              THEN /\ file_path' = walk[next].path
                   /\ content' = disk[walk[next].path].text
                   /\ fixed' = << FixTrace(config, content') >>
                   /\ IF content' # fixed'[1].text /\ command.in_place
                      THEN pc' = AfterRead(config) /\ UNCHANGED next
                      ELSE next' = next + 1 /\ UNCHANGED pc
                   /\ UNCHANGED outcome
              ELSE /\ outcome' = "Err"
                   /\ pc' = "done"
                   /\ UNCHANGED <<content, file_path, fixed, next>>
    /\ UNCHANGED <<parsed, config, results, report, command, walk, disk, reports>>
    /\ UNCHANGED loop

\* format_files returns Ok
FormatDone ==
    /\ pc = "format"
    /\ next > Len(walk)
    /\ outcome' = "Ok"
    /\ pc' = "done"
    /\ UNCHANGED <<content, parsed, file_path, config, results, report, fixed,
                   command, walk, next, disk, reports, events>>
    /\ UNCHANGED loop

NextRun ==
    \/ WalkError \/ LintSkip \/ LintEntry \/ LintDone \/ LintSingle
    \/ FixSkip \/ FixRead \/ FixDone \/ Backup \/ Write
    \/ FormatSkip \/ FormatRead \/ FormatDone

SpecRun == InitRun /\ [][NextRun]_vars

(***************************************************************************)
(* The third loop of fix_empty_lines, one iteration a step.  Vec::drain    *)
(* panics when the end of its range lies beyond the list.                  *)
(***************************************************************************)
\* fix_content up to the third loop of fix_empty_lines, on the texts drawn
\* line by line: the loop reads of a line only whether it is empty
InitLoop ==
    /\ content \in LineTexts \cup {KeyValueText}
    /\ parsed = ParseErr
    /\ file_path = P_a_yaml
    /\ config \in FixConfigs
    /\ results = <<>>
    /\ report = NoReport
    /\ pc = "loop"
    /\ fixed = <<>>
    /\ NoRun
    /\ loop = [lines |-> FixTrace(config, content).stripped, i |-> 0]

\* one iteration with the range drained beginning at j: a variant that
\* removes lines after the run
LoopStep_drain_after_run ==
    /\ pc = "loop"
    /\ loop.i < Len(loop.lines)
    /\ LET ls == loop.lines
           i == loop.i
       IN IF trim(ls[i + 1]) = <<>>
          THEN LET consecutive == Consecutive(ls, i + 1)
                   j == i + consecutive
               IN IF consecutive > config.max_consecutive
                  THEN LET to_remove == consecutive - config.max_consecutive
                       IN IF j + to_remove <= Len(ls)
                          THEN /\ loop' = [lines |-> SubSeq(ls, 1, j)
                                                      \o SubSeq(ls, j + to_remove + 1, Len(ls)),
                                           i |-> i + config.max_consecutive]
                               /\ UNCHANGED pc
                          ELSE pc' = "panic" /\ UNCHANGED loop
                  ELSE loop' = [loop EXCEPT !.i = j] /\ UNCHANGED pc
          ELSE loop' = [loop EXCEPT !.i = i + 1] /\ UNCHANGED pc
    /\ UNCHANGED <<content, parsed, file_path, config, results, report, fixed, run>>

\* one iteration of `while i < lines.len()`
LoopStep ==
    /\ pc = "loop"
    /\ loop.i < Len(loop.lines)
    /\ LET ls == loop.lines
           i == loop.i
       IN IF trim(ls[i + 1]) = <<>>
          THEN LET consecutive == Consecutive(ls, i + 1)
                   j == i + consecutive
               IN IF consecutive > config.max_consecutive
                  THEN LET to_remove == consecutive - config.max_consecutive
                       IN IF i + to_remove <= Len(ls)
                          THEN /\ loop' = [lines |-> SubSeq(ls, 1, i)
                                                      \o SubSeq(ls, i + to_remove + 1, Len(ls)),
                                           i |-> i + config.max_consecutive]
                               /\ UNCHANGED pc
                          ELSE pc' = "panic" /\ UNCHANGED loop
                  ELSE loop' = [loop EXCEPT !.i = j] /\ UNCHANGED pc
          ELSE loop' = [loop EXCEPT !.i = i + 1] /\ UNCHANGED pc
    /\ UNCHANGED <<content, parsed, file_path, config, results, report, fixed, run>>

\* the loop is left, the empty line is pushed when max_end > 0, and
\* fix_content goes on to its end
LoopDone ==
    /\ pc = "loop"
    /\ loop.i >= Len(loop.lines)
    /\ loop' = [loop EXCEPT !.lines = IF config.max_end > 0 THEN Append(@, <<>>) ELSE @]
    /\ fixed' = << [text |-> join(fix_quotes(config, loop'.lines)) \o <<"\n">>] >>
    /\ pc' = "done"
    /\ UNCHANGED <<content, parsed, file_path, config, results, report, run>>

NextLoop == LoopStep \/ LoopDone

\* the loop runs on while it can: nothing else is scheduled
SpecLoop == InitLoop /\ [][NextLoop]_vars /\ WF_vars(NextLoop)

ByRule(rs, rule) == SelectSeq(rs, LAMBDA r : r.rule = rule)

(***************************************************************************)
(* Notions the properties are stated with, written without the rules'      *)
(* own helpers.                                                            *)
(***************************************************************************)
\* the document's lines
DocLines == lines(content)

\* a line of spaces and tabs only (or empty)
IsBlank(line) == \A i \in 1..Len(line) : line[i] \in {" ", "\t", "\r"}

\* the number of space characters a line begins with
LeadingSpaceCount(line) ==
    CHOOSE n \in 0..Len(line) :
        /\ \A i \in 1..n : line[i] = " "
        /\ n = Len(line) \/ line[n + 1] # " "

\* the text before the first line terminator
TextBeforeFirstNewline(text) ==
    LET stops == {i \in 1..Len(text) : text[i] = "\n"} \cup {Len(text) + 1}
        stop == CHOOSE i \in stops : \A j \in stops : i <= j
    IN SubSeq(text, 1, stop - 1)

\* check_file has run on a document that parses
CheckedOk == pc = "checked" /\ parsed.ok

\* the diagnostics of one rule reported at one line
AtLine(rs, rule, i) == SelectSeq(rs, LAMBDA r : r.rule = rule /\ r.line = i)

Max(a, b) == IF a >= b THEN a ELSE b

(***************************************************************************)
(* C1: for a text that fails to parse, check_file returns exactly one      *)
(* diagnostic: line 1, column 1, severity Error, rule "syntax", snippet    *)
(* the document's first line (empty for an empty document); no text rule   *)
(* and no structural rule contributes.                                     *)
(***************************************************************************)
C1_SyntaxOnly ==
    (pc = "checked" /\ ~parsed.ok) =>
        /\ Len(results) = 1
        /\ results[1].line = 1
        /\ results[1].column = 1
        /\ results[1].severity = "Error"
        /\ results[1].rule = "syntax"
        /\ results[1].snippet = TextBeforeFirstNewline(content)
        /\ results[1].file = file_path

\* a text that fails to parse and on which the trailing-spaces rule and the
\* empty-lines rule would each have reported something
C1_Witness ==
    /\ pc = "checked"
    /\ ~parsed.ok
    /\ results # <<>>
    /\ check_trailing_spaces(config, content, file_path) # <<>>
    /\ check_empty_lines(config, content, file_path) # <<>>

(***************************************************************************)
(* C2: the report of lint_file has passed = TRUE exactly when none of its  *)
(* diagnostics has severity Error; Warning, Info and Off never block.      *)
(***************************************************************************)
C2_PassedIffNoError ==
    pc = "linted" =>
        /\ report.results = results
        /\ report.file = file_path
        /\ report.passed <=>
             (\A i \in 1..Len(report.results) :
                  report.results[i].severity \in {"Warning", "Info", "Off"})

\* a report that passes although it holds a trailing-spaces diagnostic of
\* severity Off
C2_Witness ==
    /\ pc = "linted"
    /\ report.passed
    /\ \E i \in 1..Len(report.results) :
           /\ report.results[i].rule = "trailing-spaces"
           /\ report.results[i].severity = "Off"

(***************************************************************************)
(* C3: for every unit >= 1 and every non-blank line that begins with a     *)
(* space, the indentation rule reports an Error at (line, 1) exactly when  *)
(* the line's number L of leading space characters is no multiple of the   *)
(* unit; a line with no leading space or beginning with a tab is never     *)
(* reported.                                                               *)
(***************************************************************************)
C3_IndentationBySpaces ==
    CheckedOk =>
        \A i \in 1..Len(DocLines) :
            LET line == DocLines[i]
                flagged == AtLine(results, "indentation", i)
            IN IF ~IsBlank(line) /\ line[1] = " "
               THEN /\ flagged # <<>> <=> LeadingSpaceCount(line) % config.spaces # 0
                    /\ \A k \in 1..Len(flagged) :
                           flagged[k].column = 1 /\ flagged[k].severity = "Error"
               ELSE flagged = <<>>

(***************************************************************************)
(* C4: in a document that parses, each line ending in a space or tab       *)
(* (blank or not) yields exactly one "trailing-spaces" diagnostic at       *)
(* (line, length of the line) with the configured severity, a line not     *)
(* ending in a space or tab yields none, and the lines reported are the    *)
(* same for all four levels.                                               *)
(***************************************************************************)
EndsInSpaceOrTab(line) == line # <<>> /\ line[Len(line)] \in {" ", "\t"}

C4_TrailingSpaces ==
    CheckedOk =>
        /\ \A i \in 1..Len(DocLines) :
               LET flagged == AtLine(results, "trailing-spaces", i)
               IN IF EndsInSpaceOrTab(DocLines[i])
                  THEN /\ Len(flagged) = 1
                       /\ flagged[1].column = Len(DocLines[i])
                       /\ flagged[1].severity = config.trailing_spaces
                  ELSE flagged = <<>>
        /\ \A r \in Range(ByRule(results, "trailing-spaces")) :
               r.line \in 1..Len(DocLines)
        /\ \A l \in Severity :
               {r.line : r \in Range(check_trailing_spaces(
                    [config EXCEPT !.trailing_spaces = l], content, file_path))}
               = {i \in 1..Len(DocLines) : EndsInSpaceOrTab(DocLines[i])}

\* a blank line of one space is reported at severity Off
C4_Witness ==
    /\ CheckedOk
    /\ config.trailing_spaces = "Off"
    /\ \E i \in 1..Len(DocLines) :
           /\ DocLines[i] = <<" ">>
           /\ Len(AtLine(results, "trailing-spaces", i)) = 1

(***************************************************************************)
(* C5: the line-length rule reports a line exactly when its length is      *)
(* strictly greater than the maximum (0, 1 and 120 among them): one        *)
(* Warning at (line, max + 1); a line of length max yields none.           *)
(***************************************************************************)
C5_LineLength ==
    CheckedOk =>
        /\ \A i \in 1..Len(DocLines) :
               LET flagged == AtLine(results, "line-length", i)
               IN IF Len(DocLines[i]) >= config.line_length_max + 1
                  THEN /\ Len(flagged) = 1
                       /\ flagged[1].column = config.line_length_max + 1
                       /\ flagged[1].severity = "Warning"
                  ELSE flagged = <<>>
        /\ \A r \in Range(ByRule(results, "line-length")) :
               r.line \in 1..Len(DocLines)

\* a line of 121 characters under the default maximum of 120
C5_Witness ==
    /\ CheckedOk
    /\ config.line_length_max = 120
    /\ Len(DocLines) = 1
    /\ Len(DocLines[1]) = 121
    /\ Len(ByRule(results, "line-length")) = 1

(***************************************************************************)
(* The empty-lines rule.                                                   *)
(***************************************************************************)
\* the number of blank lines the document begins with
LeadingBlankCount(ls) ==
    CHOOSE n \in 0..Len(ls) :
        /\ \A i \in 1..n : IsBlank(ls[i])
        /\ n = Len(ls) \/ ~IsBlank(ls[n + 1])

\* the document's only blank lines are its leading ones
OnlyLeadingBlanks(ls) ==
    \A i \in (LeadingBlankCount(ls) + 1)..Len(ls) : ~IsBlank(ls[i])

\* the position of blank line i within its maximal run of blank lines
PosInRun(ls, i) ==
    LET before == {j \in 1..(i - 1) : ~IsBlank(ls[j])}
        prev == IF before = {} THEN 0 ELSE CHOOSE j \in before : \A k \in before : k <= j
    IN i - prev

\* a..b is a maximal run of blank lines
IsMaximalRun(ls, a, b) ==
    /\ a <= b
    /\ \A i \in a..b : IsBlank(ls[i])
    /\ a = 1 \/ ~IsBlank(ls[a - 1])
    /\ b = Len(ls) \/ ~IsBlank(ls[b + 1])

ConsecutiveText == "Too many consecutive empty lines ({})"

StartText == "Too many empty lines at start of file ({})"

\* the diagnostics of the interior-run check
InteriorDiags(rs) ==
    SelectSeq(rs, LAMBDA r : r.rule = "empty-lines" /\ r.message.text = ConsecutiveText)

IsWarningAt(r, line, column) ==
    r.severity = "Warning" /\ r.line = line /\ r.column = column

(***************************************************************************)
(* C6, as claimed: for a document whose only blank lines are its N leading *)
(* ones, with max_start = M and any max_consecutive, the empty-lines rule  *)
(* produces exactly one diagnostic (a Warning at (1,1)) if N > M and none  *)
(* if N <= M.                                                              *)
(***************************************************************************)
C6_OneOrNone ==
    (CheckedOk /\ OnlyLeadingBlanks(DocLines)) =>
        LET e == ByRule(results, "empty-lines")
        IN IF LeadingBlankCount(DocLines) > config.max_start
           THEN Len(e) = 1 /\ IsWarningAt(e[1], 1, 1)
           ELSE e = <<>>

(***************************************************************************)
(* C6, amended: for such a document the leading-run check contributes      *)
(* exactly one diagnostic (a Warning at (1,1), the rule's last) if N > M   *)
(* and none if N <= M, however far N exceeds M; the interior-run check     *)
(* adds, before it, one Warning at each of the lines                       *)
(* max_consecutive + 1 .. N, so the rule produces                          *)
(* max(0, N - max_consecutive) + (1 if N > M) diagnostics.                 *)
(***************************************************************************)
C6_LeadingRun ==
    (CheckedOk /\ OnlyLeadingBlanks(DocLines)) =>
        LET e == ByRule(results, "empty-lines")
            N == LeadingBlankCount(DocLines)
            excess == Max(0, N - config.max_consecutive)
            start == IF N > config.max_start THEN 1 ELSE 0
        IN /\ Len(e) = excess + start
           /\ \A k \in 1..excess :
                  /\ IsWarningAt(e[k], config.max_consecutive + k, 1)
                  /\ e[k].message.text = ConsecutiveText
           /\ start = 1 =>
                  /\ IsWarningAt(e[Len(e)], 1, 1)
                  /\ e[Len(e)].message.text = StartText
                  /\ e[Len(e)].message.n1 = N

\* three leading blank lines before a content line, two over max_start and
\* one over max_consecutive
C6_Witness ==
    /\ CheckedOk
    /\ OnlyLeadingBlanks(DocLines)
    /\ LeadingBlankCount(DocLines) = 3
    /\ Len(DocLines) = 4
    /\ config.max_start = 1
    /\ config.max_consecutive = 2
    /\ Len(ByRule(results, "empty-lines")) = 2

(***************************************************************************)
(* C7: in the interior-run check a maximal run of r blank lines yields     *)
(* exactly max(0, r - max_consecutive) Warnings, one at each blank line    *)
(* whose position within the run exceeds max_consecutive; every non-blank  *)
(* line resets the count, so separate runs are counted separately.         *)
(***************************************************************************)
C7_InteriorRuns ==
    CheckedOk =>
        LET d == InteriorDiags(results)
            at(i) == SelectSeq(d, LAMBDA r : r.line = i)
        IN /\ \A i \in 1..Len(DocLines) :
                  IF IsBlank(DocLines[i])
                     /\ PosInRun(DocLines, i) > config.max_consecutive
                  THEN Len(at(i)) = 1 /\ IsWarningAt(at(i)[1], i, 1)
                  ELSE at(i) = <<>>
           /\ \A a \in 1..Len(DocLines) : \A b \in a..Len(DocLines) :
                  IsMaximalRun(DocLines, a, b) =>
                      Cardinality({k \in 1..Len(d) : d[k].line \in a..b})
                          = Max(0, (b - a + 1) - config.max_consecutive)
           /\ \A k \in 1..Len(d) : d[k].line \in 1..Len(DocLines)

\* two runs of one blank line around a content line, with max_consecutive =
\* 1: two blank lines in all, and neither is reported
C7_Witness ==
    /\ CheckedOk
    /\ config.max_consecutive = 1
    /\ Len(DocLines) = 3
    /\ IsBlank(DocLines[1]) /\ ~IsBlank(DocLines[2]) /\ IsBlank(DocLines[3])
    /\ InteriorDiags(results) = <<>>

(***************************************************************************)
(* The required-fields rule.                                               *)
(***************************************************************************)
\* a pattern with all of its leading and trailing "*" and "/" stripped
FullyStripped(p) ==
    LET keep == {i \in 1..Len(p) : p[i] \notin {"*", "/"}}
        lo == CHOOSE i \in keep : \A j \in keep : i <= j
        hi == CHOOSE i \in keep : \A j \in keep : j <= i
    IN IF keep = {} THEN <<>> ELSE SubSeq(p, lo, hi)

\* t occurs in s as a plain substring
IsSubstring(t, s) ==
    \E a \in 1..(Len(s) + 1) : \E b \in (a - 1)..Len(s) : SubSeq(s, a, b) = t

\* the root mapping's entry for a string key, if it has one
HasKey(v, k) ==
    v.kind = "Mapping" /\ \E i \in 1..Len(v.entries) : v.entries[i][1] = VString(k)

ValueOf(v, k) ==
    v.entries[CHOOSE i \in 1..Len(v.entries) : v.entries[i][1] = VString(k)][2]

\* the first segment of a dotted path that is absent along the walk from v,
\* as a sequence of at most one segment
RECURSIVE FirstAbsent(_, _)
FirstAbsent(v, parts) ==
    IF parts = <<>> THEN <<>>
    ELSE IF HasKey(v, Head(parts)) THEN FirstAbsent(ValueOf(v, Head(parts)), Tail(parts))
         ELSE << Head(parts) >>

\* the segments of a dotted path
RECURSIVE Segments(_)
Segments(f) ==
    LET dots == {i \in 1..Len(f) : f[i] = "."}
        d == CHOOSE i \in dots : \A j \in dots : i <= j
    IN IF dots = {} THEN <<f>>
       ELSE <<SubSeq(f, 1, d - 1)>> \o Segments(SubSeq(f, d + 1, Len(f)))

\* check_file has run with a single required-fields entry configured
SingleEntry == CheckedOk /\ Len(config.paths) = 1

(***************************************************************************)
(* C8, as claimed: a required-fields entry applies to a file exactly when  *)
(* the path contains, as a plain substring, the entry's pattern with all   *)
(* of its leading and trailing "*" and "/" stripped; the pattern           *)
(* "**/k8s/*.yaml" reduces to "k8s" and applies to every path that         *)
(* contains "k8s".  (On an empty root mapping an entry with fields         *)
(* applies exactly when it reports a missing field.)                       *)
(***************************************************************************)
C8_PatternSubstring ==
    (SingleEntry /\ config.paths[1][2] # <<>> /\ parsed.value = VMapping(<<>>)) =>
        LET pattern == config.paths[1][1]
            applied == ByRule(results, "required-fields") # <<>>
        IN /\ applied <=> IsSubstring(FullyStripped(pattern), file_path)
           /\ (pattern = DefaultPattern /\ IsSubstring(Pat_k8s, file_path)) => applied

(***************************************************************************)
(* C9, as claimed: for a root mapping under a matching path, each required *)
(* dotted path on its own yields no diagnostic if every segment is present *)
(* along the walk and otherwise exactly one "required-fields" Error naming *)
(* the first absent segment (for metadata.name: name whenever the key      *)
(* metadata is present in the root, metadata when it is absent); the other *)
(* paths of the list are still checked.                                    *)
(***************************************************************************)
C9_FirstAbsentSegment ==
    (SingleEntry /\ parsed.value.kind = "Mapping"
        /\ PatternApplies(config.paths[1][1], file_path)) =>
        LET fields == config.paths[1][2]
            e == ByRule(results, "required-fields")
            expected == ConcatAll([i \in 1..Len(fields) |->
                                      FirstAbsent(parsed.value, Segments(fields[i]))])
        IN /\ Len(e) = Len(expected)
           /\ \A k \in 1..Len(e) :
                  /\ e[k].message.arg = expected[k]
                  /\ e[k].severity = "Error"
                  /\ e[k].line = 1 /\ e[k].column = 1

(***************************************************************************)
(* The value-types rule.                                                   *)
(***************************************************************************)
RECURSIVE SumSeq(_)
SumSeq(ns) == IF ns = <<>> THEN 0 ELSE Head(ns) + SumSeq(Tail(ns))

\* how many string nodes of the tree hold s: in value position (the root,
\* mapping values, sequence elements) and, with keys, as mapping keys too
RECURSIVE CountString(_, _, _)
CountString(v, s, keys) ==
    CASE v.kind = "String" -> IF v.s = s THEN 1 ELSE 0
      [] v.kind = "Sequence" ->
           SumSeq([i \in 1..Len(v.items) |-> CountString(v.items[i], s, keys)])
      [] v.kind = "Mapping" ->
           SumSeq([i \in 1..Len(v.entries) |->
                     CountString(v.entries[i][2], s, keys)
                     + (IF keys THEN CountString(v.entries[i][1], s, keys) ELSE 0)])
      [] OTHER -> 0

\* the strings held by the tree's nodes, keys included
RECURSIVE StringsOf(_)
StringsOf(v) ==
    CASE v.kind = "String" -> {v.s}
      [] v.kind = "Sequence" -> UNION {StringsOf(v.items[i]) : i \in 1..Len(v.items)}
      [] v.kind = "Mapping" ->
           UNION {StringsOf(v.entries[i][1]) \cup StringsOf(v.entries[i][2]) :
                    i \in 1..Len(v.entries)}
      [] OTHER -> {}

\* s is w in some mix of upper and lower case
SameIgnoringCase(s, w) ==
    /\ Len(s) = Len(w)
    /\ \A i \in 1..Len(s) :
           \/ s[i] = w[i]
           \/ \E j \in 1..Len(LowerLetters) :
                  LowerLetters[j] = w[i] /\ UpperLetters[j] = s[i]

BoolLike(s) ==
    \E w \in {<<"t", "r", "u", "e">>, <<"f", "a", "l", "s", "e">>,
              <<"y", "e", "s">>, <<"n", "o">>} : SameIgnoringCase(s, w)

NumberLike(s) == parse_i64_is_ok(s) \/ parse_f64_is_ok(s)

BoolText == "Boolean-like string: '{}'. Consider using boolean type."

NumberText == "Number-like string: '{}'. Consider using number type."

\* the value-types diagnostics with the given message about the string s
ValueDiags(rs, text, s) ==
    SelectSeq(rs, LAMBDA r : r.rule = "value-types" /\ r.message.text = text
                             /\ r.snippet = s)

\* every string node counted by CountString(.., keys) yields its warnings,
\* and nothing else yields any
ValueTypesOver(keys) ==
    LET d == ByRule(results, "value-types")
        strings == StringsOf(parsed.value) \cup {d[k].snippet : k \in 1..Len(d)}
    IN /\ \A k \in 1..Len(d) :
              /\ d[k].severity = "Warning"
              /\ d[k].line = 1 /\ d[k].column = 1
              /\ d[k].message.text \in {BoolText, NumberText}
              /\ d[k].message.arg = d[k].snippet
       /\ \A s \in strings :
              /\ Len(ValueDiags(results, BoolText, s))
                   = IF config.check_bool_values /\ BoolLike(s)
                     THEN CountString(parsed.value, s, keys) ELSE 0
              /\ Len(ValueDiags(results, NumberText, s))
                   = IF config.strict_numbers /\ NumberLike(s)
                     THEN CountString(parsed.value, s, keys) ELSE 0

(***************************************************************************)
(* C10, as claimed: the value-types rule visits every node of the parsed   *)
(* tree at any depth, mapping keys among them, and a string node yields a  *)
(* boolean-like Warning iff check_bool_values is set and its value is      *)
(* true, false, yes or no in any case, and a number-like Warning iff       *)
(* strict_numbers is set and it parses as an integer or a float; other     *)
(* nodes yield nothing.                                                    *)
(***************************************************************************)
C10_EveryNode == CheckedOk => ValueTypesOver(TRUE)

(***************************************************************************)
(* C10, amended: the rule visits every node in value position (the root,   *)
(* every mapping value and every sequence element, at any depth) and not   *)
(* the mapping keys; a string in value position yields the two Warnings as *)
(* claimed, and keys, number, boolean and null leaves and containers       *)
(* yield nothing.                                                          *)
(***************************************************************************)
C10_ValueNodes == CheckedOk => ValueTypesOver(FALSE)

\* a tree two containers deep whose nested string and whose sibling string
\* are both reported, and whose boolean-like key is not
C10_Witness ==
    /\ CheckedOk
    /\ config.check_bool_values /\ config.strict_numbers
    /\ parsed.value = VMapping(<< <<VString(S_yes), VString(S_yes)>>,
                                 <<VString(S_k), VSequence(<<VString(S_12)>>)>> >>)
    /\ Len(ByRule(results, "value-types")) = 2

(***************************************************************************)
(* The duplicate-keys rule and the parse before it.                        *)
(***************************************************************************)
\* the keys of the root mapping in the order the text writes them: of each
\* line that is not indented, the text before its colon
RootKeysWritten(text) ==
    LET ls == lines(text)
        root == SelectSeq(ls, LAMBDA l : l # <<>> /\ l[1] # " ")
        key(l) == SubSeq(l, 1, (CHOOSE i \in 1..Len(l) : l[i] = ":"
                                   /\ \A j \in 1..(i - 1) : l[j] # ":") - 1)
    IN [i \in 1..Len(root) |-> key(root[i])]

\* the positions of a key sequence whose key occurred at an earlier one, in
\* order
RECURSIVE RepeatedAt(_, _)
RepeatedAt(keys, i) ==
    IF i > Len(keys) THEN <<>>
    ELSE (IF \E j \in 1..(i - 1) : keys[j] = keys[i] THEN <<i>> ELSE <<>>)
         \o RepeatedAt(keys, i + 1)

(***************************************************************************)
(* C11: for the root mapping's entries in the order written, the           *)
(* duplicate-keys rule emits one "duplicates" diagnostic, at the           *)
(* configured severity and naming the key, for each entry whose key        *)
(* already occurred earlier, and none otherwise: keys a, b, a give one     *)
(* diagnostic naming a, and keys repeated only inside nested mappings      *)
(* give none.                                                              *)
(***************************************************************************)
C11_OnePerRepeatedEntry ==
    CheckedOk =>
        LET keys == RootKeysWritten(content)
            again == RepeatedAt(keys, 1)
            d == ByRule(results, "duplicates")
        IN /\ Len(d) = Len(again)
           /\ \A k \in 1..Len(d) :
                  /\ d[k].severity = config.duplicates
                  /\ d[k].message.arg = keys[again[k]]

(***************************************************************************)
(* C12: the parse in check_file keeps every key-value pair of the root     *)
(* mapping as written, so the tree handed to the duplicate-keys rule holds *)
(* an entry for each written one, and for a root mapping that repeats a    *)
(* key check_file returns a "duplicates" diagnostic for that key.          *)
(***************************************************************************)
C12_ParseKeepsEntries ==
    pc = "checked" =>
        LET keys == RootKeysWritten(content)
            again == RepeatedAt(keys, 1)
        IN /\ parsed.ok
           /\ parsed.value.kind = "Mapping"
           /\ [i \in 1..Len(parsed.value.entries) |-> parsed.value.entries[i][1]]
                = [i \in 1..Len(keys) |-> VString(keys[i])]
           /\ \A k \in 1..Len(again) :
                  \E i \in 1..Len(results) :
                      /\ results[i].rule = "duplicates"
                      /\ results[i].message.arg = keys[again[k]]

(***************************************************************************)
(* The rewriter.                                                           *)
(***************************************************************************)
\* fix_content has run once on the document's text
Fixed == pc = "fixed"

HasQuoteChar(text) == \E i \in 1..Len(text) : text[i] \in {"'", "\""}

\* the lines of a list that are not blank, in order
NonBlank(ls) == SelectSeq(ls, LAMBDA l : ~IsBlank(l))

\* the position of the k-th line that is not blank
NonBlankPos(ls, k) ==
    CHOOSE i \in 1..Len(ls) :
        ~IsBlank(ls[i]) /\ Cardinality({j \in 1..i : ~IsBlank(ls[j])}) = k

\* the number of lines between the k-th and the next line that is not blank
Gap(ls, k) == NonBlankPos(ls, k + 1) - NonBlankPos(ls, k) - 1

Min(a, b) == IF a <= b THEN a ELSE b

\* text ends with exactly n newline characters
EndsWithNewlines(text, n) ==
    /\ Len(text) >= n
    /\ \A i \in (Len(text) - n + 1)..Len(text) : text[i] = "\n"
    /\ Len(text) > n => text[Len(text) - n] # "\n"

\* the number of blank lines a list of lines ends with
TrailingBlankCount(ls) ==
    CHOOSE n \in 0..Len(ls) :
        /\ \A i \in (Len(ls) - n + 1)..Len(ls) : IsBlank(ls[i])
        /\ n = Len(ls) \/ ~IsBlank(ls[Len(ls) - n])

(***************************************************************************)
(* C13: the rewrite is a fixed point: for every unit >= 1 and every text   *)
(* that has no quote character, or with prefer_double set, fix_content of  *)
(* fix_content of the text is the same text as fix_content of it.          *)
(***************************************************************************)
C13_FixedPoint ==
    (pc = "refixed" /\ config.spaces >= 1
        /\ (~HasQuoteChar(content) \/ config.prefer_double)) =>
        fixed[2].text = fixed[1].text

\* a text with a single quote, rewritten with double quotes preferred into
\* a different text, which the second rewrite returns as it is
C13_Witness ==
    /\ pc = "refixed"
    /\ config.prefer_double
    /\ \E i \in 1..Len(content) : content[i] = "'"
    /\ fixed[1].text # content
    /\ fixed[2].text = fixed[1].text

\* the text "  key:   value   " and three blank lines has been rewritten with
\* unit 4 and the other settings at their defaults
KeyValueFixed ==
    /\ Fixed
    /\ content = KeyValueText
    /\ config = [DefaultConfig EXCEPT !.spaces = 4]

(***************************************************************************)
(* C14, as claimed: with unit 4 and max_consecutive = 2, the text          *)
(* "  key:   value   " followed by three blank lines is rewritten to        *)
(* "key:   value" followed by three newlines (the content line and a blank *)
(* run capped at 2 lines).                                                 *)
(***************************************************************************)
C14_BlankRunCapped ==
    KeyValueFixed =>
        fixed[1].text = <<"k", "e", "y", ":", " ", " ", " ", "v", "a", "l", "u", "e",
                           "\n", "\n", "\n">>

(***************************************************************************)
(* C14, amended: that text is rewritten to "key:   value" followed by two  *)
(* newlines: the 2-space indent is floored to 0, the trailing spaces are   *)
(* stripped, the inner spacing is kept, the three trailing blank lines are *)
(* all removed and one blank line (max_end = 1 > 0) is appended.           *)
(***************************************************************************)
C14_TrailingBlanksReplaced ==
    KeyValueFixed =>
        /\ fixed[1].indentation[1] =
               <<"k", "e", "y", ":", " ", " ", " ", "v", "a", "l", "u", "e", " ", " ", " ">>
        /\ fixed[1].excess = << <<"k", "e", "y", ":", " ", " ", " ", "v", "a", "l", "u", "e">> >>
        /\ fixed[1].text = <<"k", "e", "y", ":", " ", " ", " ", "v", "a", "l", "u", "e",
                              "\n", "\n">>

C14_Witness == KeyValueFixed /\ Len(fixed[1].input) = 4 /\ Len(fixed[1].empty) = 2

(***************************************************************************)
(* C18: the indentation step replaces each non-blank line that begins with *)
(* L leading spaces by the line with that run cut to                       *)
(* floor(L / unit) * unit spaces; everything from the first non-space      *)
(* character on is unchanged, and a line that does not begin with a space  *)
(* (and a blank line) is unchanged.                                        *)
(***************************************************************************)
C18_IndentFloored ==
    Fixed =>
        /\ Len(fixed[1].indentation) = Len(fixed[1].input)
        /\ \A i \in 1..Len(fixed[1].input) :
               LET line == fixed[1].input[i]
                   L == LeadingSpaceCount(line)
               IN fixed[1].indentation[i] =
                      IF ~IsBlank(line) /\ line[1] = " "
                      THEN Rep(" ", (L \div config.spaces) * config.spaces)
                           \o SubSeq(line, L + 1, Len(line))
                      ELSE line

(***************************************************************************)
(* C19: after the blank-line step, before the final blank line is          *)
(* appended, the line list has no leading and no trailing blank line,      *)
(* every run of blank lines between two non-blank lines has length         *)
(* min(original run length, max_consecutive), for max_consecutive = 0 too, *)
(* and the non-blank lines are the same lines in the same order.           *)
(***************************************************************************)
C19_BlankRuns ==
    Fixed =>
        LET before == fixed[1].trailing
            after == fixed[1].excess
            n == Len(NonBlank(before))
        IN /\ NonBlank(after) = NonBlank(before)
           /\ n = 0 => after = <<>>
           /\ after # <<>> => ~IsBlank(after[1]) /\ ~IsBlank(after[Len(after)])
           /\ \A k \in 1..(n - 1) :
                  Gap(after, k) = Min(Gap(before, k), config.max_consecutive)

\* with max_consecutive = 1: a leading blank line, a run of two blank lines
\* between two content lines and a trailing blank line become one blank
\* line between the content lines
C19_Witness ==
    /\ Fixed
    /\ config.max_consecutive = 1
    /\ fixed[1].trailing = << <<>>, <<"a">>, <<>>, <<>>, <<"a">>, <<>> >>
    /\ fixed[1].excess = << <<"a">>, <<>>, <<"a">> >>

(***************************************************************************)
(* C20, as claimed: for every input the rewritten text ends with exactly   *)
(* one blank line followed by exactly one trailing newline when            *)
(* max_end > 0, the same text for every positive max_end, and with exactly *)
(* one trailing newline and no trailing blank line when max_end = 0.       *)
(***************************************************************************)
C20_OneBlankLineAtEnd ==
    Fixed =>
        LET text == fixed[1].text
        IN /\ text # <<>> /\ text[Len(text)] = "\n"
           /\ TrailingBlankCount(lines(text)) = IF config.max_end > 0 THEN 1 ELSE 0
           /\ config.max_end > 0 =>
                  \A e \in 1..(MaxBlank + 1) :
                      fix_content([config EXCEPT !.max_end = e], content) = text

(***************************************************************************)
(* C20, amended: for every input with a non-blank line the rewritten text  *)
(* ends with exactly two newlines (one empty line and the trailing         *)
(* newline) when max_end > 0, the same text for every positive max_end,    *)
(* and with exactly one newline when max_end = 0; the line before them is  *)
(* not empty but may be whitespace only (the quote step turns the line     *)
(* `" "` into " ").  For an input with no non-blank line the rewritten     *)
(* text is the single newline, whatever max_end is.                        *)
(***************************************************************************)
C20_OneEmptyLineAtEnd ==
    Fixed =>
        LET text == fixed[1].text
        IN /\ IF NonBlank(lines(content)) = <<>> THEN text = <<"\n">>
              ELSE EndsWithNewlines(text, IF config.max_end > 0 THEN 2 ELSE 1)
           /\ config.max_end > 0 =>
                  \A e \in 1..(MaxBlank + 1) :
                      fix_content([config EXCEPT !.max_end = e], content) = text

\* a content line followed by two blank lines, rewritten with max_end = 2
C20_Witness ==
    /\ Fixed
    /\ config.max_end = 2
    /\ fixed[1].input = << <<"a">>, <<>>, <<>> >>
    /\ fixed[1].text = <<"a", "\n", "\n">>

(***************************************************************************)
(* The runs over a directory.                                              *)
(***************************************************************************)
\* a directory run (not the check of one file) whose walk yields no error
DirectoryRun ==
    /\ command.name \in {"check", "format"}
    /\ ~command.single
    /\ \A i \in 1..Len(walk) : ~walk[i].error

\* the number of times the run has tried to read the file
ReadsOf(path) ==
    Cardinality({k \in 1..Len(events) : events[k].op = "read" /\ events[k].path = path})

\* some pattern of the exclusion list, with its leading and trailing "*"
\* and "/" stripped, occurs in the path
ExcludedByPattern(cfg, path) ==
    \E i \in 1..Len(cfg.exclude) : IsSubstring(FullyStripped(cfg.exclude[i]), path)

(***************************************************************************)
(* C15: in a directory run of the check command a YAML file is skipped by  *)
(* the exclusion list (lint_file is not called on it) exactly when its     *)
(* path contains, as a plain substring, some exclusion pattern with its    *)
(* leading and trailing "*" and "/" trimmed; the default pattern           *)
(* "**/node_modules/" excludes every file whose path contains              *)
(* "node_modules".                                                         *)
(***************************************************************************)
C15_ExcludedIffSubstring ==
    (DirectoryRun /\ command.name = "check" /\ pc \in {"fix", "done"}) =>
        \A i \in 1..Len(walk) :
            IsYamlFile(walk[i]) =>
                (ReadsOf(walk[i].path) = 0 <=> ExcludedByPattern(config, walk[i].path))

\* what the run owes a YAML file of the walk: the format command reads it,
\* the check command reads it unless it is excluded, and reads it again to
\* fix it when fixing is asked for and its report holds a diagnostic
Processed(path) ==
    \/ command.name = "check" /\ should_exclude(config, path)
    \/ /\ ReadsOf(path) >= 1
       /\ (command.fix /\ \E k \in 1..Len(reports) :
               reports[k].file = path /\ reports[k].results # <<>>)
            => ReadsOf(path) >= 2

(***************************************************************************)
(* C16: in a directory run (lint, auto-fix of the linted reports, or       *)
(* format) a failure to read or write one file is confined to that file:   *)
(* when the run has ended, every other YAML file of the walk has been      *)
(* processed; in the check of a single file the failure is returned as an  *)
(* error.                                                                  *)
(***************************************************************************)
C16_FailureConfined ==
    pc = "done" =>
        /\ DirectoryRun =>
               \A k \in 1..Len(events) :
                   ~events[k].ok =>
                       \A i \in 1..Len(walk) :
                           (IsYamlFile(walk[i]) /\ walk[i].path # events[k].path)
                               => Processed(walk[i].path)
        /\ (command.name = "check" /\ command.single
              /\ \E k \in 1..Len(events) : ~events[k].ok) => outcome = "Err"

(***************************************************************************)
(* C17: with backups enabled, a step that changes a file of the directory  *)
(* is taken only when the file's backup path holds the content the file    *)
(* has before the step (the completed copy comes first), and a step in     *)
(* which the copy fails leaves the file as it is and ends the run.         *)
(***************************************************************************)
C17_BackupBeforeWrite ==
    [][config.backup_files =>
         /\ \A p \in FilePaths :
                disk'[p] # disk[p] => disk[backup_path(p)] = disk[p]
         /\ (pc = "backup" /\ outcome' = "Err") =>
                /\ disk'[file_path] = disk[file_path]
                /\ pc' = "done"]_vars

\* a file has been copied to its backup path and then rewritten with a
\* different text
C17_Witness ==
    /\ config.backup_files
    /\ Len(events) >= 2
    /\ events[Len(events)] = Event("write", file_path, TRUE)
    /\ events[Len(events) - 1] = Event("copy", file_path, TRUE)
    /\ disk[backup_path(file_path)] = FileOf(content)
    /\ disk[file_path] = FileOf(fixed[1].text)
    /\ fixed[1].text # content

(***************************************************************************)
(* C21: with prefer_double unset, fix_quotes looks at the first quoted     *)
(* span of each line only: when the span's content is not empty and holds  *)
(* neither ":" nor "#", the line loses exactly the two quote characters of *)
(* that span and nothing else (a later quoted span stays as it is, also    *)
(* one with the same content); otherwise the line is unchanged.            *)
(***************************************************************************)
\* the line without the characters at positions i and j
WithoutPair(line, i, j) ==
    SubSeq(line, 1, i - 1) \o SubSeq(line, i + 1, j - 1) \o SubSeq(line, j + 1, Len(line))

\* the line the quote step is said to make of a line
FirstSpanStripped(line) ==
    IF QuotedSpans(line) = {} THEN line
    ELSE LET sp == FirstSpan(line)
             inner == SubSeq(line, sp[1] + 1, sp[2] - 1)
         IN IF inner # <<>> /\ ":" \notin Range(inner) /\ "#" \notin Range(inner)
            THEN WithoutPair(line, sp[1], sp[2])
            ELSE line

C21_FirstSpanOnly ==
    (pc = "fixed" /\ ~config.prefer_double) =>
        \A i \in 1..Len(fixed[1].empty) :
            fixed[1].quotes[i] = FirstSpanStripped(fixed[1].empty[i])

(***************************************************************************)
(* C22: the diagnostics do not depend on max_end: with max_end set to any  *)
(* other value and nothing else changed, check_empty_lines and check_file  *)
(* return the same sequences for the document, also for a document ending  *)
(* in more blank lines than max_end and than max_consecutive flags.        *)
(***************************************************************************)
C22_MaxEndIgnored ==
    pc = "checked" =>
        \A e \in 0..(MaxBlank + 1) :
            LET other == [config EXCEPT !.max_end = e]
            IN /\ check_empty_lines(other, content, file_path)
                      = check_empty_lines(config, content, file_path)
               /\ check_file(other, content, parsed, file_path) = results

\* a checked document that parses and ends in more blank lines than max_end,
\* none of them reported
C22_Witness ==
    /\ CheckedOk
    /\ TrailingBlankCount(DocLines) > config.max_end
    /\ ~IsBlank(DocLines[1])
    /\ ByRule(results, "empty-lines") = <<>>

(***************************************************************************)
(* C23: in a check run with fixing, every linted file is rewritten to      *)
(* fix_content of its text whatever its diagnostics are, also a file with  *)
(* an empty diagnostic list: whenever the loop of auto_fix_files moves on  *)
(* from a report, the report's file holds fix_content of the text it held. *)
(***************************************************************************)
\* a step in which the loop of auto_fix_files moves on from a report
FixLoopAdvances ==
    /\ command.name = "check"
    /\ pc \in {"fix", "write"}
    /\ next' = next + 1

C23_RewrittenWhateverDiagnostics ==
    [][FixLoopAdvances =>
         LET f == reports[next].file
         IN disk'[f] = FileOf(fix_content(config, disk[f].text))]_vars

(***************************************************************************)
(* C23 as the code has it: whether a linted file is rewritten depends on   *)
(* its diagnostics, how it is rewritten does not.  A file whose report has *)
(* no diagnostic is passed over: no file changes and no file operation is  *)
(* made.  A file whose report has a diagnostic is rewritten to fix_content *)
(* of its text and the Config.                                             *)
(***************************************************************************)
C23_RewrittenIffReported ==
    [][FixLoopAdvances =>
         LET f == reports[next].file
         IN IF reports[next].results = <<>>
            THEN disk' = disk /\ events' = events
            ELSE disk'[f] = FileOf(fix_content(config, disk[f].text))]_vars

\* a run that has ended well with a file passed over, still holding a text
\* the rewriter would change, and a file rewritten
C23_Witness ==
    /\ command.name = "check" /\ command.fix
    /\ pc = "done" /\ outcome = "Ok"
    /\ \E i, j \in 1..Len(reports) :
           /\ reports[i].results = <<>>
           /\ disk[reports[i].file] = FileOf(<<"a">>)
           /\ fix_content(config, <<"a">>) # <<"a">>
           /\ reports[j].results # <<>>
           /\ \E k \in 1..Len(events) :
                  events[k] = Event("write", reports[j].file, TRUE)

(***************************************************************************)
(* C24: with check_bool_values and strict_numbers both set, some string    *)
(* leaf gets both the boolean-like and the number-like Warning: among the  *)
(* strings drawn, which hold every spelling of true, false, yes and no,    *)
(* there is one for which check_value_types returns both.                  *)
(***************************************************************************)
\* the value-types diagnostics of the one string s with both checks set
BothChecks(s) ==
    check_value_types([config EXCEPT !.check_bool_values = TRUE, !.strict_numbers = TRUE],
                      VString(s), file_path)

C24_SomeStringBoth ==
    \E s \in LeafStrings \cup CaseVariants :
        /\ ValueDiags(BothChecks(s), BoolText, s) # <<>>
        /\ ValueDiags(BothChecks(s), NumberText, s) # <<>>

(***************************************************************************)
(* C24 as the code has it: no string gets both warnings.  A string whose   *)
(* lower-case form is true, false, yes or no parses neither as i64 nor as  *)
(* f64, so in every checked tree the two warnings are never about the same *)
(* string, and a tree that is one string gets one warning at most.         *)
(***************************************************************************)
C24_NeverBoth ==
    CheckedOk =>
        /\ \A s \in StringsOf(parsed.value) :
               ~(/\ ValueDiags(results, BoolText, s) # <<>>
                 /\ ValueDiags(results, NumberText, s) # <<>>)
        /\ parsed.value.kind = "String" => Len(ByRule(results, "value-types")) <= 1

\* a checked tree that is one boolean-like string in mixed case, with both
\* checks set and the one warning it gets
C24_Witness ==
    /\ CheckedOk
    /\ config.check_bool_values /\ config.strict_numbers
    /\ parsed.value = VString(<<"t", "R", "u", "E">>)
    /\ Len(ByRule(results, "value-types")) = 1
    /\ ValueDiags(results, BoolText, parsed.value.s) # <<>>

(***************************************************************************)
(* C25: every diagnostic check_file returns has line >= 1 and column >= 1; *)
(* a diagnostic of a text rule (indentation, trailing-spaces, line-length, *)
(* empty-lines) has a line no greater than the number of lines of the      *)
(* document; a syntax, required-fields, value-types or duplicates          *)
(* diagnostic is at line 1, column 1.                                      *)
(***************************************************************************)
TextRules == {"indentation", "trailing-spaces", "line-length", "empty-lines"}

TreeRules == {"syntax", "required-fields", "value-types", "duplicates"}

C25_Positions ==
    pc \in {"checked", "linted"} =>
        \A k \in 1..Len(results) :
            /\ results[k].line >= 1
            /\ results[k].column >= 1
            /\ results[k].rule \in TextRules \cup TreeRules
            /\ results[k].rule \in TextRules => results[k].line <= Len(DocLines)
            /\ results[k].rule \in TreeRules =>
                   results[k].line = 1 /\ results[k].column = 1

\* a checked document of several lines with a diagnostic at its last line,
\* beyond column 1
C25_Witness ==
    /\ CheckedOk
    /\ Len(DocLines) > 1
    /\ \E k \in 1..Len(results) :
           /\ results[k].rule \in TextRules
           /\ results[k].line = Len(DocLines)
           /\ results[k].column > 1

(***************************************************************************)
(* C26: for every text and every config (unit >= 1), check_indentation and *)
(* check_trailing_spaces with the same config report nothing on the text   *)
(* fix_content returns, the quote step included.                           *)
(***************************************************************************)
C26_FixedIsClean ==
    Fixed =>
        /\ check_indentation(config, fixed[1].text, file_path) = <<>>
        /\ check_trailing_spaces(config, fixed[1].text, file_path) = <<>>

(***************************************************************************)
(* C27: for every text, the empty one included, and every max_start,       *)
(* max_end and max_consecutive (also max_consecutive = 0 with              *)
(* max_end > 0), check_empty_lines with the same config reports nothing on *)
(* the text fix_content returns.  The rewriter does not read max_start, so *)
(* every max_start is tried on the text it returned.                       *)
(***************************************************************************)
C27_FixedHasNoEmptyLineDiagnostic ==
    Fixed =>
        \A a \in 0..MaxBlank :
            check_empty_lines([config EXCEPT !.max_start = a], fixed[1].text, file_path)
                = <<>>

(***************************************************************************)
(* C28: with backups enabled, the backup of a rewritten file holds the     *)
(* text the file had just before its latest rewrite, also when several     *)
(* files of one directory (a.yaml and a.yml) are rewritten in one run: a   *)
(* file is written only when its backup holds its text, and once a file    *)
(* has been rewritten its backup changes only in a step that backs up that *)
(* same file.                                                              *)
(***************************************************************************)
\* the file has been rewritten in this run
Rewritten(p) == \E k \in 1..Len(events) : events[k] = Event("write", p, TRUE)

C28_BackupKept ==
    [][config.backup_files =>
         \A p \in FilePaths :
             /\ disk'[p] # disk[p] => disk[backup_path(p)] = disk[p]
             /\ (Rewritten(p) /\ disk'[backup_path(p)] # disk[backup_path(p)])
                    => (pc = "backup" /\ file_path = p)]_vars

(***************************************************************************)
(* C29: fix_content terminates for every text and every config with unit   *)
(* >= 1 and max_consecutive >= 0: every iteration of the interior-run loop *)
(* of fix_empty_lines brings the index nearer to the end of the list (also *)
(* with max_consecutive = 0, where a deletion leaves the index where it    *)
(* is), every range drained lies within the list, and the loop is left     *)
(* with the text fix_content returns.                                      *)
(***************************************************************************)
\* the lines from the index to the end of the list
LinesLeft == Len(loop.lines) - loop.i

C29_LoopProgress ==
    /\ [](pc # "panic" /\ (pc = "loop" => LinesLeft >= 0))
    /\ [][(pc = "loop" /\ pc' = "loop") => LinesLeft' < LinesLeft]_vars
    /\ <>(pc = "done")
    /\ [](pc = "done" => fixed[1].text = fix_content(config, content))

\* a deletion with max_consecutive = 0 has been made and the loop has gone
\* on from it: the index stands where it stood, before a line that is not
\* blank
C29_Witness ==
    /\ pc = "loop"
    /\ config.max_consecutive = 0
    /\ loop.i > 0 /\ loop.i < Len(loop.lines)
    /\ Len(loop.lines) < Len(lines(content))
    /\ ~IsBlank(loop.lines[loop.i + 1])

(***************************************************************************)
(* C30: fix_content neither adds, deletes, merges nor reorders the lines   *)
(* that are not blank: the text it returns has as many of them as the      *)
(* input, and the k-th differs from the k-th of the input in its leading   *)
(* spaces, its trailing whitespace and its quote characters at most.       *)
(***************************************************************************)
\* a line without its quote characters, its leading spaces and its
\* trailing whitespace
Core(line) ==
    LET bare == SelectSeq(line, LAMBDA c : c \notin {"'", "\""})
        n == LeadingSpaceCount(bare)
    IN trim_end(SubSeq(bare, n + 1, Len(bare)))

C30_NonBlankLinesKept ==
    Fixed =>
        LET before == NonBlank(fixed[1].input)
            after == NonBlank(lines(fixed[1].text))
        IN /\ Len(after) = Len(before)
           /\ \A k \in 1..Len(before) : Core(after[k]) = Core(before[k])

====
